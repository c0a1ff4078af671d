------------------------------- MODULE Security -------------------------------
(***************************************************************************)
(* The security directory.  The list of its certificates in the overlay      *)
(* (security_directory_loader.cpp): the directory is named by its offset in  *)
(* the file, the overlay is read from its own start, and each certificate is *)
(* padded to eight bytes.  And the check of its signatures                   *)
(* (image_authenticode_verifier.cpp, authenticode_verifier.h,                *)
(* authenticode_timestamp_signature_verifier.h): the root signature and      *)
(* those nested in it are checked one by one; a check sets the fields of a   *)
(* status, and the verdict is computed from the fields.                      *)
(*                                                                           *)
(* What a signature is, is chosen where the code looks at it, and kept in    *)
(* facts; the fields of the status are what the code sets.                   *)
(***************************************************************************)
EXTENDS Integers, Sequences

CONSTANTS
    OverlayStarts,     \* offsets of the overlay in the file
    OverlaySizes,      \* its bytes
    DirectorySizes,    \* bytes of the directory
    CertificateSizes,  \* lengths of certificates with their headers
    MaxCertificates,   \* loader_options::max_entries
    MaxNested          \* signatures nested in one

VARIABLES
    given,   \* [start, bytes, va, size]; of the check [directory, stamps]: the directory,
             \* verify_timestamp_signature
    pc,      \* "place", "entry" or "done"; the next thing that is looked at, "throws" or "done"
    walk,    \* [pos, offset, left, ended]: rpos in the overlay, overlay_offset, size;
             \* [left, facts, status]: signatures left, and the one that is checked
    result,  \* the entries, each [at, length, data, errors]; [answer, signatures]: each
             \* [valid, good], its verdict and what it is; the root is the last one
    errors

vars == <<given, pc, walk, result, errors>>

-----------------------------------------------------------------------------
(* The list of certificates. *)

DescriptorSize == 8   \* win_certificate without its bytes
Alignment == 8

CertificatesInit ==
    /\ given \in [start : OverlayStarts, bytes : OverlaySizes, ahead : {-4, 0, 4, 8}, size : DirectorySizes]
    /\ pc = "place"
    /\ walk = [pos |-> 0, offset |-> given.start, left |-> given.size, ended |-> FALSE]
    /\ result = <<>> /\ errors = {}

Va == given.start + given.ahead
Padding(offset) == (Alignment - (offset % Alignment)) % Alignment
Readable(n) == walk.pos + n <= given.bytes

Place ==
    /\ pc = "place"
    /\ IF given.bytes = 0 \/ Va < given.start \/ Va - given.start > given.bytes
       THEN errors' = {"invalid_directory"} /\ pc' = "done" /\ UNCHANGED walk
       ELSE /\ errors' = IF Va % Alignment = 0 THEN {} ELSE {"unaligned_directory"}
            /\ walk' = [walk EXCEPT !.pos = Va - given.start]
            /\ pc' = "entry"
    /\ UNCHANGED <<given, result>>

Entry(length, data, e) == [at |-> walk.pos, length |-> length, data |-> data, errors |-> e]
Add(entry) == result' = Append(result, entry)
More == pc = "entry" /\ walk.left >= DescriptorSize
InLimit == More /\ Len(result) < MaxCertificates

TooManyEntries ==
    /\ More /\ Len(result) = MaxCertificates
    /\ errors' = errors \cup {"too_many_entries"}
    /\ pc' = "done" /\ UNCHANGED <<given, walk, result>>

\* An entry that cannot be read stays in the list with its error, and ends it.
EntryUnread ==
    /\ InLimit /\ ~Readable(DescriptorSize)
    /\ Add(Entry(0, FALSE, {"invalid_entry"}))
    /\ pc' = "done" /\ UNCHANGED <<given, walk, errors>>

\* The descriptor was read: what is left of the directory, and of the loop.
Rest == walk.left - DescriptorSize
Read == InLimit /\ Readable(DescriptorSize)

EmptyEntry ==
    /\ Read
    /\ walk' = [walk EXCEPT !.ended = TRUE, !.left = Rest]
    /\ pc' = "done" /\ UNCHANGED <<given, result, errors>>

\* Too short for its own header: the next header is searched directly behind it.
ShortEntry ==
    /\ Read
    /\ \E length \in {n \in CertificateSizes : n < DescriptorSize} :
        Add(Entry(length, FALSE, {"invalid_entry_size"}))
    /\ walk' = [walk EXCEPT !.pos = @ + DescriptorSize, !.offset = @ + DescriptorSize, !.left = Rest]
    /\ UNCHANGED <<given, pc, errors>>

LongEntry ==
    /\ Read
    /\ \E length \in {n \in CertificateSizes : n > DescriptorSize} :
        \/ length - DescriptorSize > Rest /\ Add(Entry(length, FALSE, {"invalid_entry_size"}))
        \/ /\ length - DescriptorSize <= Rest /\ ~Readable(length)
           /\ Add(Entry(length, FALSE, {"invalid_certificate_data"}))
    /\ pc' = "done" /\ UNCHANGED <<given, walk, errors>>

\* The padding is of overlay_offset, which is counted from the start of the overlay
\* and not of the directory.
Certificate ==
    /\ Read
    /\ \E length \in {n \in CertificateSizes : n >= DescriptorSize} :
       LET left == Rest - (length - DescriptorSize)
           pad == Padding(walk.offset + length)
           behind == walk.pos + length IN
       /\ left >= 0 /\ Readable(length)
       /\ Add(Entry(length, length > DescriptorSize,
                    IF left >= pad /\ left > 0 /\ behind + pad > given.bytes THEN {"invalid_entry"} ELSE {}))
       /\ IF left = 0
          THEN walk' = [walk EXCEPT !.pos = behind, !.left = 0] /\ UNCHANGED pc
          ELSE IF left < pad
          THEN walk' = [walk EXCEPT !.pos = behind, !.left = left] /\ pc' = "short"
          ELSE IF behind + pad > given.bytes
          THEN walk' = [walk EXCEPT !.pos = behind, !.left = left] /\ pc' = "done"
          ELSE /\ walk' = [walk EXCEPT !.pos = behind + pad, !.offset = @ + length + pad,
                                       !.left = left - pad]
               /\ UNCHANGED pc
    /\ UNCHANGED <<given, errors>>

\* Behind the loop: bytes of the directory that are not of a certificate.
ListEnds ==
    /\ pc = "short" \/ (pc = "entry" /\ walk.left < DescriptorSize)
    /\ errors' = IF walk.left = 0 THEN errors ELSE errors \cup {"invalid_directory_size"}
    /\ pc' = "done" /\ UNCHANGED <<given, walk, result>>

CertificatesNext ==
    \/ Place \/ TooManyEntries \/ EntryUnread \/ EmptyEntry \/ ShortEntry \/ LongEntry
    \/ Certificate \/ ListEnds

-----------------------------------------------------------------------------
(* Statuses and verdicts. *)

Unset == "unset"
Stamp == [errors |-> {}, hash |-> Unset, digest |-> Unset, signature |-> Unset, time |-> FALSE]
NoStamp == [Stamp EXCEPT !.time = TRUE]
Status == [errors |-> {}, image |-> Unset, pages |-> Unset, errc |-> FALSE, digest |-> Unset,
           signature |-> Unset, stamped |-> FALSE, stamp |-> Stamp]

Looked == {"format", "attributes", "certificates", "algorithms", "pages", "image", "digest",
           "signature", "stamp", "stamp_format", "stamp_algorithms", "stamp_hash", "stamp_digest",
           "stamp_signature", "stamp_time"}
NoFacts == [f \in Looked |-> "unread"]

StampVerdict(s) ==
    /\ s.errors = {} /\ s.hash = "valid" /\ s.digest \in {Unset, "valid"}
    /\ s.signature = "valid" /\ s.time
\* Faulty: an error of the page hashes is not looked at.
RootVerdictNoPages(s) ==
    /\ s.errors = {} /\ s.image = "valid" /\ s.digest = "valid" /\ s.signature = "valid"
    /\ s.pages # "invalid"
    /\ s.stamped => StampVerdict(s.stamp)
RootVerdict(s) ==
    /\ s.errors = {} /\ s.image = "valid" /\ s.digest = "valid" /\ s.signature = "valid"
    /\ ~s.errc /\ s.pages # "invalid"
    /\ s.stamped => StampVerdict(s.stamp)
Verdict == \A i \in DOMAIN result.signatures : result.signatures[i].valid

\* What a signature has to be, whatever was looked at first.
StampGood(f) ==
    \/ f["stamp"] = "none"
    \/ /\ f["stamp"] = "token"
       /\ \A look \in {"stamp_format", "stamp_algorithms", "stamp_hash", "stamp_digest",
                       "stamp_signature"} : f[look] = "good"
    \/ /\ f["stamp"] = "counter_signature"
       /\ \A look \in {"stamp_algorithms", "stamp_time", "stamp_hash", "stamp_signature"} : f[look] = "good"
Good(f) ==
    /\ \A look \in {"format", "attributes", "algorithms", "image", "digest", "signature"} :
            f[look] = "good"
    /\ f["certificates"] = "good" /\ f["pages"] \in {"none", "good"}
    /\ given.stamps => StampGood(f)

SignaturesInit ==
    /\ given \in [directory : {"none", "bad", "empty", "undecodable", "signed"}, stamps : BOOLEAN]
    /\ pc = "directory"
    /\ walk = [left |-> 0, facts |-> NoFacts, status |-> Status]
    /\ result = [answer |-> FALSE, signatures |-> <<>>] /\ errors = {}

-----------------------------------------------------------------------------
(* The image. *)

RootOnly(error) ==
    <<[valid |-> RootVerdict([Status EXCEPT !.errors = {error}]), good |-> FALSE]>>

Load ==
    /\ pc = "directory"
    /\ CASE given.directory \in {"none", "empty"} -> pc' = "done" /\ UNCHANGED result
         [] given.directory = "bad" ->
                /\ result' = [answer |-> TRUE, signatures |-> RootOnly("security_directory_has_errors")]
                /\ pc' = "done"
         [] given.directory = "undecodable" ->
                /\ result' = [answer |-> TRUE, signatures |-> RootOnly("invalid_signature_format")]
                /\ pc' = "done"
         [] given.directory = "signed" ->
                result' = [result EXCEPT !.answer = TRUE] /\ pc' = "unauthenticated"
    /\ UNCHANGED <<given, walk, errors>>

\* The attributes of the only signer; with more or fewer of them there are none.
Unauthenticated ==
    /\ pc = "unauthenticated"
    /\ \/ /\ result' = [result EXCEPT !.signatures = RootOnly("duplicate_attribute_oid")]
          /\ pc' = "done" /\ UNCHANGED walk
       \/ /\ \E nested \in 0 .. MaxNested : walk' = [walk EXCEPT !.left = nested + 1]
          /\ pc' = "format" /\ UNCHANGED result
    /\ UNCHANGED <<given, errors>>

\* A nested signature that cannot be decoded is not caught.
NestedUndecodable ==
    pc = "unauthenticated" /\ pc' = "throws" /\ UNCHANGED <<given, walk, result, errors>>

-----------------------------------------------------------------------------
(* One signature: verify_authenticode, verify_valid_format_authenticode. *)

Set(look, fact, status) == walk' = [walk EXCEPT !.facts[look] = fact, !.status = status]
Here == walk.status
WithError(e) == [Here EXCEPT !.errors = @ \cup {e}]
Keep == UNCHANGED <<given, result, errors>>
Go(label) == pc' = label /\ Keep

LookAtFormat ==
    /\ pc = "format"
    /\ \/ Set("format", "good", Here) /\ Go("attributes")
       \/ \E e \in {"invalid_signer_count", "non_matching_digest_algorithm"} :
            Set("format", e, WithError(e)) /\ Go("end")

LookAtAttributes ==
    /\ pc = "attributes"
    /\ \/ Set("attributes", "good", Here) /\ Go("certificates")
       \/ \E e \in {"duplicate_attribute_oid", "absent_message_digest"} :
            Set("attributes", e, WithError(e)) /\ Go("end")

\* What is wrong with the certificates is a warning.
BuildStore ==
    /\ pc = "certificates"
    /\ \E c \in {"good", "absent"} : Set("certificates", c, Here)
    /\ Go("algorithms")

LookAtAlgorithms ==
    /\ pc = "algorithms"
    /\ \/ Set("algorithms", "good", Here) /\ Go("pages")
       \/ Set("algorithms", "unknown", WithError("unsupported_digest_algorithm")) /\ Go("end")

\* Page hashes that cannot be read are as none, but for the error code.
LookAtPages ==
    /\ pc = "pages"
    /\ \E p \in {"none", "good", "wrong", "undecodable", "invalid", "too_big"} :
        Set("pages", p, [Here EXCEPT !.errc = (p \in {"undecodable", "invalid"})])
    /\ Go("image")

PagesUsed == walk.facts["pages"] \in {"good", "wrong", "too_big"}
HashImage ==
    /\ pc = "image"
    /\ \/ \E image \in {"good", "wrong"} :
            /\ Set("image", image,
                   [Here EXCEPT !.image = IF image = "good" THEN "valid" ELSE "invalid",
                                !.errc = @ \/ walk.facts["pages"] = "too_big",
                                !.pages = IF ~PagesUsed THEN Unset
                                          ELSE IF walk.facts["pages"] = "good" THEN "valid" ELSE "invalid"])
            /\ Go("digest")
       \/ Set("image", "unhashable", WithError("invalid_image_format_for_hashing")) /\ Go("end")

HashContent ==
    /\ pc = "digest"
    /\ \/ \E d \in {"good", "wrong"} :
            /\ Set("digest", d, [Here EXCEPT !.digest = IF d = "good" THEN "valid" ELSE "invalid"])
            /\ Go("signature")
       \/ Set("digest", "throws", WithError("invalid_message_digest")) /\ Go("end")

\* verify_signature: without the certificate of the signer there is nothing to verify with.
Signatures == {"wrong", "absent_signing_cert", "throws"}
    \cup (IF walk.facts["certificates"] = "good" THEN {"good"} ELSE {})
VerifySignature ==
    /\ pc = "signature"
    /\ \E s \in Signatures :
        Set("signature", s, [Here EXCEPT !.signature = IF s = "good" THEN "valid" ELSE "invalid"])
    /\ Go(IF given.stamps THEN "stamp" ELSE "end")

-----------------------------------------------------------------------------
(* Its timestamp. *)

\* A token is tried in the form of a bug first, and then in the right one.
LoadStamp ==
    /\ pc = "stamp"
    /\ \/ Set("stamp", "none", Here) /\ Go("end")
       \/ Set("stamp", "undecodable", WithError("invalid_timestamp_signature")) /\ Go("end")
       \/ Set("stamp", "token", [Here EXCEPT !.stamped = TRUE]) /\ Go("stamp_format")
       \/ Set("stamp", "counter_signature", [Here EXCEPT !.stamped = TRUE]) /\ Go("stamp_algorithms")

SetStamp(look, fact, stamp) == Set(look, fact, [Here EXCEPT !.stamp = stamp])
Ts == walk.status.stamp
StampError(e) == [Ts EXCEPT !.errors = @ \cup {e}]
IsToken == walk.facts["stamp"] = "token"

LookAtStamp ==
    /\ pc = "stamp_format"
    /\ \/ SetStamp("stamp_format", "good", Ts) /\ Go("stamp_algorithms")
       \/ SetStamp("stamp_format", "bad", StampError("invalid_tst_info_version")) /\ Go("end")

\* A token has a time of its own, and is given it wherever its checks ended.
Timed(stamp) == IF IsToken THEN [stamp EXCEPT !.time = TRUE] ELSE stamp

LookAtStampAlgorithms ==
    /\ pc = "stamp_algorithms"
    /\ \/ /\ SetStamp("stamp_algorithms", "good", Timed(Ts))
          /\ Go(IF IsToken THEN "stamp_hash" ELSE "stamp_time")
       \/ /\ SetStamp("stamp_algorithms", "unknown", Timed(StampError("unsupported_digest_algorithm")))
          /\ Go("end")

\* A counter signature has the time as an attribute, or not; errors of the attributes
\* do not stop it.
LookAtStampTime ==
    /\ pc = "stamp_time"
    /\ \/ SetStamp("stamp_time", "good", [Ts EXCEPT !.time = TRUE])
       \/ SetStamp("stamp_time", "absent", Ts)
       \/ SetStamp("stamp_time", "invalid", StampError("invalid_signing_time"))
    /\ Go("stamp_hash")

HashStamp ==
    /\ pc = "stamp_hash"
    /\ \/ \E h \in {"good", "wrong"} :
            /\ SetStamp("stamp_hash", h, [Ts EXCEPT !.hash = IF h = "good" THEN "valid" ELSE "invalid"])
            /\ Go(IF IsToken THEN "stamp_digest" ELSE "stamp_signature")
       \/ /\ ~IsToken
          /\ SetStamp("stamp_hash", "throws", StampError("invalid_message_digest"))
          /\ Go("end")

HashStampContent ==
    /\ pc = "stamp_digest"
    /\ \/ \E d \in {"good", "wrong"} :
            /\ SetStamp("stamp_digest", d, [Ts EXCEPT !.digest = IF d = "good" THEN "valid" ELSE "invalid"])
            /\ Go("stamp_signature")
       \/ SetStamp("stamp_digest", "throws", StampError("invalid_message_digest")) /\ Go("end")

VerifyStamp ==
    /\ pc = "stamp_signature"
    /\ \E s \in {"good", "wrong"} :
        SetStamp("stamp_signature", s, [Ts EXCEPT !.signature = IF s = "good" THEN "valid" ELSE "invalid"])
    /\ Go("end")

EndSignature ==
    /\ pc = "end"
    /\ result' = [result EXCEPT !.signatures = Append(@, [valid |-> RootVerdict(walk.status), good |-> Good(walk.facts)])]
    /\ walk' = [walk EXCEPT !.left = @ - 1, !.facts = NoFacts, !.status = Status]
    /\ pc' = IF walk.left = 1 THEN "done" ELSE "format"
    /\ UNCHANGED <<given, errors>>

SignaturesNext ==
    \/ Load \/ Unauthenticated \/ NestedUndecodable
    \/ LookAtFormat \/ LookAtAttributes \/ BuildStore \/ LookAtAlgorithms \/ LookAtPages
    \/ HashImage \/ HashContent \/ VerifySignature
    \/ LoadStamp \/ LookAtStamp \/ LookAtStampAlgorithms \/ LookAtStampTime \/ HashStamp
    \/ HashStampContent \/ VerifyStamp \/ EndSignature

-----------------------------------------------------------------------------
(* What is checked. *)

AllErrors == errors \cup UNION {result[i].errors : i \in DOMAIN result}

\* The certificates are inside of the directory and of the overlay, in order and apart.
CertificatesApart ==
    /\ \A i \in DOMAIN result : result[i].data =>
        /\ result[i].at >= Va - given.start
        /\ result[i].at + result[i].length <= given.bytes
        /\ result[i].at + result[i].length <= Va - given.start + given.size
    /\ \A i, j \in DOMAIN result : i < j /\ result[i].data =>
        result[i].at + result[i].length <= result[j].at

\* With nothing reported they fill the directory up to its end or its empty entry,
\* each at an offset of the file that is padded, if the overlay begins at one that is.
DirectoryFilled ==
    pc = "done" /\ AllErrors = {} =>
        /\ walk.ended \/ walk.left = 0
        /\ given.start % Alignment = 0 =>
            \A i \in DOMAIN result : (given.start + result[i].at) % Alignment = 0
CertificatesWhole == CertificatesApart /\ DirectoryFilled

\* A signature is said to be valid exactly if all of it is good, the image exactly if
\* all signatures of it are; nothing that was not looked at counts as good.
VerdictJust ==
    /\ \A i \in DOMAIN result.signatures : result.signatures[i].valid <=> result.signatures[i].good
    /\ pc = "done" /\ result.answer =>
        /\ result.signatures # <<>>
        /\ Verdict => given.directory = "signed" /\ walk.left = 0

=============================================================================
