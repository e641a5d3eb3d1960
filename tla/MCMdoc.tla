------------------------------- MODULE MCMdoc -------------------------------
(***************************************************************************)
(* One credential and what can be wrong with it, and the requests a holder *)
(* may get: by version, with and without a pseudonym, for one attribute or *)
(* two, of one that is not there or twice of the same.  Signatures on the  *)
(* curve y^2 = x^3 - 3x + 15 modulo 23, whose order is the prime 17.       *)
(* Issuer-signed items in every order of their entries and several         *)
(* encodings, and MobileSecurityObjects with entries of the same names at  *)
(* other levels.                                                           *)
(***************************************************************************)
EXTENDS MdocZk, Ecdsa, MdocParsing, InputLayout

MCProvers == {[version |-> 6, num_attributes |-> 1], [version |-> 7, num_attributes |-> 1],
              [version |-> 8, num_attributes |-> 1], [version |-> 8, num_attributes |-> 2]}

Item(id, value) == [id |-> id, value |-> value, digest_matches |-> TRUE,
                    value_follows |-> TRUE, starts_at_one |-> TRUE]

Name == Item("name", <<"text", "n", None>>)
Seed == Item("pseudonym_seed", <<"seed", "s", None>>)
Short == Item("pseudonym_seed", <<"text", "short", None>>)

Good == [parses |-> TRUE, issuer |-> "i", signer |-> "i", valid_from |-> 1, valid_until |-> 2,
         doc_type |-> "d", name_spaces |-> "empty", device_signed |-> <<"d", "empty", "t">>,
         key_wrapped |-> FALSE, items |-> ("ns" :> <<Name, Seed>>), messages |-> <<1, 2>>]

MCResponses == {
    Good,
    [Good EXCEPT !.parses = FALSE],
    [Good EXCEPT !.issuer = "other"],
    [Good EXCEPT !.valid_until = 0],
    [Good EXCEPT !.device_signed = <<"e", "empty", "t">>],
    [Good EXCEPT !.doc_type = "e", !.device_signed = <<"e", "empty", "t">>],
    [Good EXCEPT !.name_spaces = "some", !.device_signed = <<"d", "some", "u">>],
    [Good EXCEPT !.key_wrapped = TRUE],
    [Good EXCEPT !.items = "ns" :> <<Name, Short>>],
    [Good EXCEPT !.items = "ns" :> <<Item("name", <<"seed", "n", None>>), Seed>>],
    [Good EXCEPT !.items = "ns" :> <<Seed, Name, Seed>>],
    [Good EXCEPT !.items = "ns" :> << [Name EXCEPT !.digest_matches = FALSE], Seed>>],
    [Good EXCEPT !.items = "ns" :> << [Name EXCEPT !.value_follows = FALSE],
                                      [Seed EXCEPT !.value_follows = FALSE]>>],
    [Good EXCEPT !.items = "ns" :> << [Name EXCEPT !.starts_at_one = FALSE], Seed>>],
    [Good EXCEPT !.issuer = "j", !.signer = "j",
                 !.items = "ns" :> <<Item("name", <<"text", "m", None>>),
                                     Item("pseudonym_seed", <<"seed", "t", None>>)>>,
                 !.messages = <<0, 3>>]}

MCCalls ==
    {[namespace |-> "ns", ids |-> ids, transcript |-> "t", time |-> time, context |-> context] :
        ids \in {<<"name">>, <<"pairwise_pseudonym">>, <<"pseudonym_seed">>,
                 <<"name", "pairwise_pseudonym">>, <<"pairwise_pseudonym", "pseudonym_seed">>,
                 <<"name", "name">>},
        time \in 0..3, context \in {None, "c1", "c2"}}
    \cup {[namespace |-> ns, ids |-> <<"name", "pairwise_pseudonym">>, transcript |-> t, time |-> 1,
           context |-> "c1"] : ns \in {"ns", "other"}, t \in {"t", "u", None}}

MCMacKeyShares == {<<1, 2>>}

-----------------------------------------------------------------------------
(* Signatures.                                                             *)

MCGenerator == <<1, 6>>

MCKeys ==
    {[of |-> "issuer", prefix |-> p, rest |-> <<x>>] : p \in {2, 3}, x \in {0, 1, 6, 17, 21, 23}}
    \cup {[of |-> "issuer", prefix |-> p, rest |-> k] : p \in {4, 5}, k \in {<<9, 2>>, <<9, 3>>, <<25, 0>>}}
    \cup {[of |-> "issuer", prefix |-> p, rest |-> <<>>] : p \in {0, 2}}
    \cup {[of |-> "issuer", prefix |-> 4, rest |-> <<1>>]}
    \cup {[of |-> "device", prefix |-> 0, rest |-> k] : k \in {<<9, 2>>, <<11, 5>>, <<11, 6>>, <<24, 0>>}}

-----------------------------------------------------------------------------
(* Items and objects.                                                      *)

Break == Counted("break", 0, 1)
ClosedBy(size) == IF size.count = Open THEN <<Break>> ELSE <<>>

Word(name, width) == <<Named("text", name, width)>>
Segmented(name, width) == <<Named("text_open", "", 1), Named("text", name, width), Break>>

KeyWidth == [digestID |-> 9, random |-> 7, elementIdentifier |-> 18, elementValue |-> 13]

UsualKeys == [k \in Keys |-> Word(k, KeyWidth[k])]
SegmentedKeys ==
    [UsualKeys EXCEPT !["elementIdentifier"] = Segmented("elementIdentifier", 18)]

UsualValues(value) ==
    [digestID |-> <<Named("positive", "7", 1)>>, random |-> <<Named("bytes", "r", 17)>>,
     elementIdentifier |-> Word("name", 5), elementValue |-> value]

\* Values in which the name of an entry comes again, and of several headers.
Elements == {
    <<Counted("map", 1, 1), Named("text", "random", 7), Counted("array", Open, 1),
      Named("positive", "1", 1), Break>>,
    <<Counted("tag", 1004, 3), Named("text", "d", 11)>>,
    <<Counted("map", Open, 1), Named("text", "random", 7), Counted("simple", 0, 1), Break>>,
    <<Named("bytes_open", "", 1), Named("bytes", "a", 3), Named("bytes", "b", 3), Break>> }

Encoded(size, order, keys, values) ==
    [kind |-> "item", entries |-> values,
     headers |-> <<size>> \o FlattenSeq([n \in 1..4 |-> keys[order[n]] \o values[order[n]]])
                    \o ClosedBy(size)]

MapOf4 == Counted("map", 4, 1)
Orders == {o \in [1..4 -> Keys] : {o[n] : n \in 1..4} = Keys}
Usual == <<"digestID", "random", "elementIdentifier", "elementValue">>
SomeOrders == {Usual, <<"elementValue", "random", "elementIdentifier", "digestID">>,
               <<"random", "digestID", "elementIdentifier", "elementValue">>}

\* Every order; the lengths at which an item stops fitting, and has a longer prefix; and
\* several encodings.
MCItems ==
    {Encoded(MapOf4, o, UsualKeys, UsualValues(Word("v", 9))) : o \in Orders}
    \cup {Encoded(size, Usual, UsualKeys, UsualValues(Word("v", w))) :
             size \in {MapOf4, Counted("map", 4, 2), Counted("map", Open, 1)},
             w \in {1, 44, 45, 184, 185}}
    \cup {Encoded(size, o, keys, UsualValues(value)) :
             size \in {MapOf4, Counted("map", Open, 1)}, o \in SomeOrders, value \in Elements,
             keys \in {UsualKeys, SegmentedKeys}}

DateOf(name, width, date) == Word(name, width) \o <<Counted("tag", 0, 1)>> \o Word(date, 21)

Dates == Word("validityInfo", 13) \o <<Counted("map", 3, 1)>>
            \o DateOf("signed", 7, "t0") \o DateOf("validFrom", 10, "t1")
            \o DateOf("validUntil", 11, "t2")
OpenDates == <<Named("text_open", "", 1)>> \o Word("validity", 9) \o Word("Info", 5)
            \o <<Break, Counted("map", Open, 1)>>
            \o DateOf("validUntil", 11, "t2") \o DateOf("validFrom", 10, "t1") \o <<Break>>

DigestOf(id, digest) == <<Named("positive", id, 1), Named("bytes", digest, 34)>>

DigestMap == Word("valueDigests", 13) \o <<Counted("map", 2, 1)>>
            \o Word("ns", 3) \o <<Counted("map", 2, 1)>> \o DigestOf("0", "a") \o DigestOf("1", "b")
            \o Word("other", 6) \o <<Counted("map", Open, 1)>> \o DigestOf("0", "c") \o <<Break>>

KeyInfo == Word("deviceKeyInfo", 14) \o <<Counted("map", 1, 1)>>
            \o Word("deviceKey", 10) \o <<Counted("map", 4, 1),
               Named("positive", "kty", 1), Named("positive", "EC2", 1),
               Named("negative", "crv", 1), Named("positive", "P256", 1),
               Named("negative", "x", 1), Named("bytes", "x1", 34),
               Named("negative", "y", 1), Named("bytes", "y1", 34)>>
WrappedKey == Word("deviceKeyInfo", 14)
            \o <<Counted("map", 2, 1), Named("positive", "1", 1), Counted("simple", 0, 1)>>
            \o Word("deviceKey", 10) \o <<Named("bytes", "key", 80)>>

\* A name that matters elsewhere, at the top.
Version == Word("version", 8) \o <<Counted("array", 1, 1)>> \o Word("validFrom", 10)

ObjectOf(size, parts) ==
    [kind |-> "object", headers |-> <<size>> \o FlattenSeq(parts) \o ClosedBy(size)]

MCObjects ==
    {ObjectOf(Counted("map", 4, 1), <<Version, Dates, KeyInfo, DigestMap>>),
     ObjectOf(Counted("map", 4, 1), <<DigestMap, WrappedKey, OpenDates, Version>>),
     ObjectOf(Counted("map", Open, 1), <<KeyInfo, DigestMap, Dates>>)}

-----------------------------------------------------------------------------
(* Contents with each length at its bound, and one byte longer.            *)

Room == [identifier |-> 19, value |-> 64, item |-> 119, credential |-> 2231, offset |-> 2230]

MCContentLengths ==
    {Room, [Room EXCEPT !.value = 65], [Room EXCEPT !.identifier = 20],
     [Room EXCEPT !.identifier = 32, !.value = 51], [Room EXCEPT !.identifier = 32, !.value = 52],
     [Room EXCEPT !.identifier = 33, !.value = 1],
     [Room EXCEPT !.item = 120], [Room EXCEPT !.item = 1]}
    \cup {[Room EXCEPT !.credential = n, !.offset = n - 1] : n \in {2232, 2551, 2552, 4097}}

-----------------------------------------------------------------------------
(* What mdoc_zk does with a credential: it is read, its signatures are     *)
(* checked step by step, it is laid out as wires, and a proof about it is  *)
(* made and verified.  These share their inputs and nothing else, so that  *)
(* a behaviour is of one of them; what MdocZk needs of the others is the   *)
(* fields of a response.                                                   *)

VARIABLE doing    \* what the behaviour is of

mdoc_vars == <<doing, vars, ecdsa_vars, parsing_vars, layout_vars>>

MdocInit ==
    /\ doing \in {"presentation", "signature", "reading", "layout"}
    /\ Init /\ EcdsaInit /\ ParsingInit /\ LayoutInit

Present ==
    doing = "presentation" /\ Next /\ UNCHANGED <<doing, ecdsa_vars, parsing_vars, layout_vars>>
CheckSignature ==
    doing = "signature" /\ EcdsaNext /\ UNCHANGED <<doing, vars, parsing_vars, layout_vars>>
ReadCredential ==
    doing = "reading" /\ ParsingNext /\ UNCHANGED <<doing, vars, ecdsa_vars, layout_vars>>
LayOut ==
    doing = "layout" /\ LayoutNext /\ UNCHANGED <<doing, vars, ecdsa_vars, parsing_vars>>

MdocNext == Present \/ CheckSignature \/ ReadCredential \/ LayOut

MdocSpec == MdocInit /\ [][MdocNext]_mdoc_vars
=============================================================================
