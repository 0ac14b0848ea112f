------------------------------ MODULE Outgoing ------------------------------
(***************************************************************************)
(* From the JSON of a send to the message on the wire: the validation in   *)
(* src/send.rs, the body limit of src/routes.rs that stands before it, and *)
(* the envelope and the MIME tree of src/smtp.rs.                          *)
(*                                                                         *)
(* A base64 text is told by its tally, a file name by the classes of its   *)
(* characters, a content type by what is wrong with it.  Texts of a body   *)
(* are short or longer than BODY_PREVIEW_LIMIT.                            *)
(*                                                                         *)
(* A definition introduced by "Slip" is no part of the model: it is a      *)
(* plausible fault of the definition after it, which a run must detect.    *)
(***************************************************************************)
EXTENDS Lists

CONSTANTS
    DefaultCap,         \* DEFAULT_MAX_ATTACHMENT_BYTES
    DefaultSendLimit,   \* DEFAULT_SEND_BODY_LIMIT
    MaxAttachments,     \* MAX_ATTACHMENTS
    MaxFilenameChars,   \* MAX_FILENAME_CHARS
    MaxUsize,           \* usize::MAX
    Addresses,          \* what lettre parses as an address
    None                \* absent, no result

Saturate(n) == IF n > MaxUsize THEN MaxUsize ELSE n

-----------------------------------------------------------------------------
(* Sizes *)

\* base64_len
Base64Len(n) == Saturate(((n + 2) \div 3) * 4)

\* SEND_BODY_OVERHEAD
SendBodyOverhead == DefaultSendLimit - Base64Len(DefaultCap)

\* Slip: the limit is the one of the default cap.
SendBodyLimitFixed(cap) == DefaultSendLimit

\* send_body_limit
SendBodyLimit(cap) == Saturate(Base64Len(cap) + SendBodyOverhead)

\* The characters of a base64 text: one of the alphabet whose lower four bits
\* are zero, another of the alphabet, the padding, a line break, any other.
Base64Char == {"A", "x", "=", "break", "other"}

\* The loop of decoded_len, which passes over the breaks and counts anew after
\* whatever is no `=`, and `bytes`: what a strict decoder makes of the rest, a
\* length or None.  Unused bits of the last character must be zero.
Tally(text) ==
    LET compact == Keep(text, {i \in DOMAIN text : text[i] # "break"})
        chars   == Len(compact)
        last    == Cardinality({i \in DOMAIN compact : \E j \in i .. chars : compact[j] # "="})
        padding == chars - last
    IN  [chars |-> chars, padding |-> padding, breaks |-> Len(text) - chars,
         bytes |-> IF /\ chars % 4 = 0 /\ padding <= 2
                      /\ \A i \in 1 .. last : compact[i] \in {"A", "x"}
                      /\ padding > 0 => compact[last] = "A"
                   THEN (last * 6) \div 8 ELSE None]

\* What a tally can be.
Content == {c \in [chars : Nat, padding : Nat, breaks : Nat, bytes : Nat \cup {None}] :
                /\ c.padding <= c.chars
                /\ c.bytes # None => /\ c.chars % 4 = 0 /\ c.padding <= 2
                                     /\ c.bytes = ((c.chars - c.padding) * 6) \div 8}

\* Slip: any number of `=` is taken for padding.
DecodedLenUnchecked(content) ==
    IF content.chars % 4 # 0 THEN None ELSE (content.chars \div 4) * 3 - content.padding

\* Slip: the padding is not taken off.
DecodedLenPadded(content) ==
    IF content.chars % 4 # 0 \/ content.padding > 2 THEN None ELSE (content.chars \div 4) * 3

\* decoded_len
DecodedLen(content) ==
    IF content.chars % 4 # 0 \/ content.padding > 2 THEN None
    ELSE (content.chars \div 4) * 3 - content.padding

-----------------------------------------------------------------------------
(* The checks of a letter *)

\* The characters of a file name; `control` is one, or a bidi override.
NameChar == {"letter", ".", "blank", "separator", "control"}

Fallback == <<"fallback">>

\* trim_end, trim_start
TrimEnd(s)   == Keep(s, {i \in DOMAIN s : \E j \in i .. Len(s) : s[j] # "blank"})
TrimStart(s) == Keep(s, {i \in DOMAIN s : \E j \in 1 .. i : s[j] # "blank"})

Clamped(raw) ==
    LET cleaned == Keep(raw, {i \in DOMAIN raw : raw[i] \notin {"control", "separator"}})
        trimmed == TrimStart(TrimEnd(cleaned))
    IN  Keep(trimmed, {i \in DOMAIN trimmed : i <= MaxFilenameChars})

\* Slip: what the clamp leaves is not trimmed again.
SanitizeFilenameOnce(raw) ==
    LET name == Clamped(raw) IN IF \A i \in DOMAIN name : name[i] = "." THEN Fallback ELSE name

\* sanitize_filename
SanitizeFilename(raw) ==
    LET name == TrimEnd(Clamped(raw))
    IN  IF \A i \in DOMAIN name : name[i] = "." THEN Fallback ELSE name

\* content_type_essence drops parameters and refuses what is no type/subtype.
ContentType == {"good", "parameters", "control", "no token", "multipart"}
Essence(type) == IF type \in {"good", "parameters"} THEN "good" ELSE None

\* Attachment
Attachment == [filename : Seq(NameChar), type : ContentType, content : Content]

\* de_recipients: a line is split and its empty parts are dropped, a list is
\* taken as it is.
Recipients == [form : {"line", "list"}, items : Seq(Addresses \cup {"", "no address"})]
DeRecipients(field) ==
    IF field.form = "list" THEN field.items
    ELSE Keep(field.items, {i \in DOMAIN field.items : field.items[i] # ""})

Text == {None, "short", "long"}

\* SendRequest but for its attachments
Letter == [from : Addresses \cup {"", "no address"}, to : Recipients, cc : Recipients, bcc : Recipients,
           text : Text, html : Text]

\* The sum that decode_attachments keeps with saturating_add.
Total(files) ==
    LET total[n \in 0 .. Len(files)] ==
            IF n = 0 THEN 0 ELSE Saturate(total[n - 1] + DecodedLen(files[n].content))
    IN  total[Len(files)]

\* The first pass of decode_attachments, which decodes nothing.
Readable(files) ==
    \A i \in DOMAIN files : Essence(files[i].type) # None /\ DecodedLen(files[i].content) # None

\* Why a letter may be refused: each is a BadRequest with a text of its own.
Reason == {"no recipient", "no body", "too many", "invalid", "too large"}

\* into_message and decode_attachments: why the letter is refused, or None.
Objection(letter, files, cap) ==
    IF DeRecipients(letter.to) = <<>> THEN "no recipient"
    ELSE IF letter.text = None /\ letter.html = None THEN "no body"
    ELSE IF Len(files) > MaxAttachments THEN "too many"
    ELSE IF ~Readable(files) THEN "invalid"
    ELSE IF Total(files) > cap THEN "too large"
    ELSE IF \E i \in DOMAIN files : files[i].content.bytes = None THEN "invalid"
    ELSE None

\* OutgoingMessage, for a letter without objection
IntoMessage(letter, files) ==
    [from |-> letter.from, to |-> DeRecipients(letter.to), cc |-> DeRecipients(letter.cc),
     bcc  |-> DeRecipients(letter.bcc), text |-> letter.text, html |-> letter.html,
     attachments |-> [i \in DOMAIN files |->
         [filename |-> SanitizeFilename(files[i].filename), type |-> Essence(files[i].type),
          bytes |-> files[i].content.bytes]]]

-----------------------------------------------------------------------------
(* The message *)

\* SendDisclosure::for_message, with clamp_preview of the text or else the html
Disclosure(message) ==
    LET part == IF message.text # None THEN "text" ELSE "html"
    IN  [from |-> message.from, to |-> message.to,
         preview |-> [part |-> part, whole |-> message[part] = "short"],
         attachments |-> [i \in DOMAIN message.attachments |->
             [filename |-> message.attachments[i].filename, size |-> message.attachments[i].bytes]]]

Bodies(message) ==
    LET parts == <<"text", "html">> IN Keep(parts, {i \in DOMAIN parts : message[parts[i]] # None})

\* Slip: the blind recipients are written as another Cc.
MimeUnblinded(message) ==
    [from |-> message.from, to |-> message.to, cc |-> message.cc \o message.bcc,
     bodies |-> Bodies(message), attachments |-> message.attachments]

\* Slip: a message with both bodies keeps no place for the attachments.
MimeAlternativeOnly(message) ==
    [from |-> message.from, to |-> message.to, cc |-> message.cc, bodies |-> Bodies(message),
     attachments |-> IF Len(Bodies(message)) = 2 THEN <<>> ELSE message.attachments]

\* build_mime and mixed_body: the headers, the body or its alternatives in
\* order, and the parts after it.
Mime(message) ==
    [from |-> message.from, to |-> message.to, cc |-> message.cc,
     bodies |-> Bodies(message), attachments |-> message.attachments]

\* build_envelope
Envelope(message) == [from |-> message.from, recipients |-> message.to \o message.cc \o message.bcc]

\* parse_address, on every address of the envelope
IsAddressed(envelope) ==
    /\ envelope.from \in Addresses
    /\ \A i \in DOMAIN envelope.recipients : envelope.recipients[i] \in Addresses
=============================================================================
