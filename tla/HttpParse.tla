----------------------------- MODULE HttpParse -----------------------------
(***************************************************************************)
(* The head of a reply, from its bytes to the Response: parse_status and   *)
(* parse_header of src/httparse.rs under the iterator parse_headers, the   *)
(* loop over its items in Client::request (src/lib.rs), and Response::new  *)
(* with its HeaderMap (src/response.rs).                                   *)
(*                                                                         *)
(* The head is read line by line, and each line is chosen when its turn    *)
(* comes.  A status line is abstracted to what parse_status looks at; a    *)
(* header line is a word over five characters, in which the word "k"       *)
(* stands for the name content-length, "K" for k in upper case and "1" for *)
(* a digit.  Overflow panics in one build and wraps in the other.          *)
(***************************************************************************)
EXTENDS Integers, Sequences, SequencesExt

CONSTANTS
    CodeBytes,  \* bytes of a status code, each less '0'
    MaxBytes    \* bound: characters of all header lines

ASSUME ParseBounds ==
    CodeBytes \subseteq Int /\ MaxBytes \in Nat

VARIABLES
    build,      \* are arithmetic overflows checked?
    pc,         \* what parse_headers does next, or how the head ended up
    head,       \* the status line
    line,       \* the last header line read
    left,       \* characters the lines to come may have
    status,     \* status of Client::request
    headers,    \* headers of Client::request, names in lower case
    length,     \* content_length handed to Body::new, None if empty
    map         \* Response.headers: HeaderMap.map

vars == <<build, pc, head, line, left, status, headers, length, map>>

Space == " "
Colon == ":"
Chars == {Space, Colon, "k", "K", "1"}
Words(most) == UNION {[1..n -> Chars] : n \in 0..most}
ContentLength == <<"k">>
None == <<>>

\* first, http: length of the first word (3 stands for less, 5 for more), and
\* does it begin with HTTP?  words: how many there are.  code: the second
\* one, of which no byte after the third is looked at.
StatusLines ==
    {l \in [first : 3..5, http : BOOLEAN, words : 1..3,
            code : UNION {[1..n -> CodeBytes] : n \in 0..3}] :
        /\ l.http => l.first >= 4
        /\ l.words = 1 => l.code = <<>>}

Init ==
    /\ build \in {"checked", "wrapping"}
    /\ pc = "status"
    /\ head = [first |-> 3, http |-> FALSE, words |-> 1, code |-> <<>>]
    /\ line = <<>> /\ left = MaxBytes
    /\ status = 0
    /\ headers = <<>>
    /\ length = None
    /\ map = <<>>

-----------------------------------------------------------------------------
(* parse_status                                                            *)

\* Mutation: a code may begin with 0.
CodeOkFromZero(c) == c[1] \in 0..5 /\ c[2] \in 0..9 /\ c[3] \in 0..9

\* The first three bytes of the code are digits, the first one 1 to 5.
CodeOk(c) == c[1] \in 1..5 /\ c[2] \in 0..9 /\ c[3] \in 0..9

\* The slices [0..4] and [5..] of the first word panic if it is too short;
\* then come a code and a reason, or an error.
StatusOutcome(l) ==
    IF l.first < 4 \/ (l.http /\ l.first = 4) THEN "panic"
    ELSE IF ~l.http THEN "err"
    ELSE IF l.words = 1 \/ Len(l.code) < 3 THEN "err"
    ELSE IF ~CodeOk(l.code) \/ l.words = 2 THEN "err"
    ELSE "headers"

ParseStatus(l) ==
    /\ pc = "status"
    /\ head' = l
    /\ pc' = StatusOutcome(l)
    /\ status' = IF pc' = "headers"
                 THEN l.code[1] * 100 + l.code[2] * 10 + l.code[3] ELSE status
    /\ UNCHANGED <<build, line, left, headers, length, map>>

-----------------------------------------------------------------------------
(* parse_header                                                            *)

\* Mutation: only one space is removed.
LtrimOnce(w) == IF w # <<>> /\ w[1] = Space THEN Tail(w) ELSE w

\* ltrim: spaces are removed from the front one by one.
Ltrim(w) ==
    LET from[i \in 1..Len(w) + 1] ==
            IF i <= Len(w) /\ w[i] = Space THEN from[i + 1] ELSE i
    IN SubSeq(w, from[1], Len(w))

Panic == -1

\* Mutation: three bytes are cut off for a space.
RtrimToByThree(w) ==
    LET to[n \in 0..Len(w)] ==
            IF n = 0 THEN IF build = "checked" THEN Panic ELSE 0
            ELSE IF w[n] # Space THEN n
            ELSE IF n < 3 THEN Panic
            ELSE to[n - 3]
    IN to[Len(w)]

\* rtrim: how many bytes of w are left.  Two are cut off for every space at
\* the end; the index of the last byte overflows on an empty word, which get
\* answers with None where it wraps, and the slice on a lone space.
RtrimTo(w) ==
    LET to[n \in 0..Len(w)] ==
            IF n = 0 THEN IF build = "checked" THEN Panic ELSE 0
            ELSE IF w[n] # Space THEN n
            ELSE IF n = 1 THEN Panic
            ELSE to[n - 2]
    IN to[Len(w)]

Trim(w) == Ltrim(SubSeq(w, 1, RtrimTo(w)))

\* split: the parts of a line before its first colon and between it and the
\* second one.
ColonAt(w) == SelectInSeq(w, LAMBDA c : c = Colon)
Before(w) == IF ColonAt(w) = 0 THEN w ELSE SubSeq(w, 1, ColonAt(w) - 1)
NamePart(w) == Before(w)
ValuePart(w) == Before(SubSeq(w, ColonAt(w) + 1, Len(w)))

\* to_lowercase
Lower(w) == [i \in DOMAIN w |-> IF w[i] = "K" THEN "k" ELSE w[i]]

HeaderOutcome(w) ==
    IF RtrimTo(NamePart(w)) = Panic THEN "panic"
    ELSE IF ColonAt(w) = 0 THEN "err"
    ELSE IF RtrimTo(ValuePart(w)) = Panic THEN "panic"
    ELSE "headers"

\* A line that is not empty: one more header, or the end of request().
ParseHeader(w) ==
    /\ w # <<>>
    /\ line' = w /\ left' = left - Len(w)
    /\ pc' = HeaderOutcome(w)
    /\ headers' = IF pc' = "headers"
                  THEN Append(headers, [name  |-> Lower(Trim(NamePart(w))),
                                        value |-> Trim(ValuePart(w))])
                  ELSE headers
    /\ UNCHANGED <<build, head, status, length, map>>

-----------------------------------------------------------------------------
(* The Response                                                            *)

\* parse::<usize>: the numeral stands for the number.
Numeral(w) == w # <<>> /\ \A i \in DOMAIN w : w[i] = "1"

\* Mutation: the first content-length decides, be it a number or not.
ContentLengthOfFirst(hs) ==
    LET i == SelectInSeq(hs, LAMBDA h : h.name = ContentLength)
    IN IF i = 0 THEN None ELSE IF Numeral(hs[i].value) THEN hs[i].value ELSE None

\* find_map over the headers: the first content-length that is a number.
ContentLengthOf(hs) ==
    LET i == SelectInSeq(hs, LAMBDA h : h.name = ContentLength /\ Numeral(h.value))
    IN IF i = 0 THEN None ELSE hs[i].value

\* One turn of the loop in HeaderMap::new: push or insert.
Push(m, h) ==
    [n \in DOMAIN m \cup {h.name} |->
        IF n # h.name THEN m[n]
        ELSE IF n \in DOMAIN m THEN Append(m[n], h.value)
        ELSE <<h.value>>]

\* HeaderMap::new: each name with its values, in their order.
HeaderMapNew(hs) ==
    LET m[i \in 0..Len(hs)] == IF i = 0 THEN <<>> ELSE Push(m[i - 1], hs[i])
    IN m[Len(hs)]

\* HeaderMap::get: a name's first value.
Get(n) == map[n][1]

\* StatusCode::from_u16, which Response::new unwraps.
FromU16(code) == code \in 100..599

\* The empty line ends the iteration: the Response is made.
Respond ==
    /\ pc = "headers"
    /\ length' = ContentLengthOf(headers)
    /\ map' = HeaderMapNew(headers)
    /\ pc' = IF FromU16(status) THEN "ok" ELSE "unwrap"
    /\ UNCHANGED <<build, head, line, left, status, headers>>

Done ==
    /\ pc \in {"ok", "err", "panic", "unwrap"}
    /\ UNCHANGED vars

Next ==
    \/ \E l \in StatusLines : ParseStatus(l)
    \/ pc = "headers" /\ \E w \in Words(left) : ParseHeader(w)
    \/ Respond
    \/ Done

Spec == Init /\ [][Next]_vars

-----------------------------------------------------------------------------
(* Properties                                                              *)

\* The reference for what trimming should leave of a word: what lies between
\* its first and its last character that is no space.
Trimmed(w) ==
    LET ink == {i \in DOMAIN w : w[i] # Space}
    IN IF ink = {} THEN <<>>
       ELSE SubSeq(w, CHOOSE i \in ink : \A j \in ink : i <= j,
                      CHOOSE i \in ink : \A j \in ink : j <= i)

\* Spaces at the end of a word: cut off two bytes at a time, they go without
\* harm only if there is an even number of them.
Spaces(w) == Len(w) - (IF Trimmed(w) = <<>> THEN 0
                       ELSE CHOOSE i \in DOMAIN w : /\ w[i] # Space
                               /\ \A j \in (i + 1)..Len(w) : w[j] = Space)
Tame(w) == Trimmed(w) # <<>> /\ Spaces(w) % 2 = 0

\* A line whose name and value are not empty and do not end in an odd number
\* of spaces is parsed in either build, whatever surrounds them, to what
\* stands between the spaces.
TameLinesParse ==
    line # <<>> /\ ColonAt(line) # 0 /\ Tame(NamePart(line)) /\ Tame(ValuePart(line)) =>
        /\ pc # "panic"
        /\ headers[Len(headers)] = [name  |-> Lower(Trimmed(NamePart(line))),
                                    value |-> Trimmed(ValuePart(line))]

\* Every other byte from the end, or nothing of the word, is a space: the
\* loop of rtrim walks off the front of the word.
WalksOff(w) == \A i \in DOMAIN w : (Len(w) - i) % 2 = 0 => w[i] = Space

\* The parser panics on a header line exactly if a part it trims walks off:
\* with an odd length in every build, with an even one (which includes no
\* byte at all) where overflows are checked.
PanicsExactly ==
    line # <<>> =>
        LET bad(w) == WalksOff(w) /\ (Len(w) % 2 = 1 \/ build = "checked")
        IN (pc = "panic") <=>
              \/ bad(NamePart(line))
              \/ ColonAt(line) # 0 /\ bad(ValuePart(line))

\* A status line panics only if its first word is too short to hold a
\* version, every other one is parsed or refused; and a status that
\* Client::request goes on with is one that StatusCode takes, so the unwrap
\* in Response::new never panics.
StatusIsSafe ==
    /\ pc = "panic" /\ line = <<>> => head.first < 5
    /\ pc # "unwrap"

\* The values under content-length in a HeaderMap.
LengthsIn(m) == IF ContentLength \in DOMAIN m THEN m[ContentLength] ELSE <<>>

\* v is the first number among the values s.
FirstNumber(s, v) ==
    \E k \in DOMAIN s : /\ s[k] = v /\ Numeral(v)
                        /\ \A j \in 1..(k - 1) : ~Numeral(s[j])

\* The Body's content_length and the HeaderMap agree although they read the
\* headers in two ways: the Body is given a length exactly if some
\* content-length is a number, and then the first number among the values
\* that the HeaderMap holds under that name.  So it is what get returns
\* unless get returns no number; with "x" and then "5" the Body is cut at 5
\* while the caller sees "x".
LengthsAgree ==
    pc = "ok" =>
        /\ (length # None) <=>
              \E h \in Range(headers) : h.name = ContentLength /\ Numeral(h.value)
        /\ length # None => FirstNumber(LengthsIn(map), length)
        /\ length = None => \A k \in DOMAIN LengthsIn(map) : ~Numeral(LengthsIn(map)[k])
        /\ LengthsIn(map) # <<>> /\ Numeral(Get(ContentLength)) =>
              length = Get(ContentLength)

\* What these rest on: the types of what is read, and where the head is.
Fields == [name : Seq(Chars), value : Seq(Chars)]

Reading ==
    /\ left \in Nat
    /\ line \in Seq(Chars)
    /\ headers \in Seq(Fields)
    /\ pc = "status" => line = <<>>
    /\ pc = "headers" => FromU16(status)
=============================================================================
