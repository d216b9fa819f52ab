-------------------------------- MODULE Hpack --------------------------------
(***************************************************************************)
(* Header compression (HPack): what a peer encodes, in whatever way RFC    *)
(* 7541 leaves it, or as HPackEncode does, and what HPackDecode and        *)
(* Http2DecodeHeader make of it, header block after header block.          *)
(*                                                                         *)
(* The peer's table evicts entries, which ones depends on sizes that are   *)
(* left out here.  qDynTable keeps all of them: the two agree as long as   *)
(* the peer's is the beginning of qDynTable.                               *)
(*                                                                         *)
(* An instruction stands for the octets of one field: its first octet and  *)
(* index as numbers, a name as such, a value as bits or characters.        *)
(***************************************************************************)
EXTENDS Integers, Sequences, FiniteSets, SequencesExt

CONSTANTS
  Fields,      \* what a peer sends: records of a name and a value
  Pseudo,      \* the names that begin with a colon
  Capitals,    \* the names without a small letter
  Chars,       \* values as characters
  HUFFCODES,   \* the code of each character, a sequence of bits
  TableSizes,  \* the sizes a peer sets for its table, as the setting is
  MaxFields, MaxBlocks, MaxEntries  \* bounds: fields of a block, blocks, insertions

-----------------------------------------------------------------------------
(* The static table *)

Entry(name, value) == [name |-> name, value |-> value]

\* The entries that begin with a colon, and those with a name only.
PseudoListe ==
  <<Entry(":authority", ""), Entry(":method", "GET"), Entry(":method", "POST"),
    Entry(":path", "/"), Entry(":path", "/index.html"),
    Entry(":scheme", "http"), Entry(":scheme", "https"),
    Entry(":status", "200"), Entry(":status", "204"), Entry(":status", "206"),
    Entry(":status", "304"), Entry(":status", "400"), Entry(":status", "404"),
    Entry(":status", "500")>>

NameListe ==
  <<"accept-language", "accept-ranges", "accept", "access-control-allow-origin", "age",
    "allow", "authorization", "cache-control", "content-disposition", "content-encoding",
    "content-language", "content-length", "content-location", "content-range",
    "content-type", "cookie", "date", "etag", "expect", "expires", "from", "host",
    "if-match", "if-modified-since", "if-none-match", "if-range",
    "if-unmodified-since", "last-modified", "link", "location", "max-forwards",
    "proxy-authenticate", "proxy-authorization", "range", "referer", "refresh",
    "retry-after", "server", "set-cookie", "strict-transport-security",
    "transfer-encoding", "user-agent", "vary", "via", "www-authenticate">>

StaticHeaderListe ==
  PseudoListe
  \o <<Entry("accept-charset", ""), Entry("accept-encoding", "gzip, deflate")>>
  \o [i \in DOMAIN NameListe |-> Entry(NameListe[i], "")]

Statics == Len(StaticHeaderListe)

\* A size has 32 bits; "update" and "error" are marks of this module.
ASSUME HpackAssumption ==
  /\ \A f \in Fields : f = Entry(f.name, f.value) /\ f.name # "update"
  /\ \A f \in Fields : f.value \in DOMAIN Chars \ {"error"}
  /\ \A c, d \in DOMAIN HUFFCODES : c # d => ~IsPrefix(HUFFCODES[c], HUFFCODES[d])
  /\ \A c \in DOMAIN HUFFCODES : HUFFCODES[c] \in Seq({0, 1})
  /\ IsInjective(Chars)
  /\ \A v \in DOMAIN Chars : Chars[v] \in Seq(DOMAIN HUFFCODES)
  /\ \A size \in TableSizes : size \in Nat /\ size \div 65536 < 65536
  /\ \A i \in 1 .. Statics : /\ StaticHeaderListe[i].name \notin Capitals
                           /\ (StaticHeaderListe[i].name \in Pseudo <=> i <= Len(PseudoListe))

-----------------------------------------------------------------------------
VARIABLES
  peer,             \* the peer's dynamic table, the newest entry first
  qDynTable,
  sent,             \* what the peer put into this block
  lstHeaderFields,  \* name and values, those of a cookie joined by "; "
  nHeaderCount,
  status,           \* "open", or "refused" when an exception closed the connection
  blocks            \* the number of blocks

hpackVars == <<peer, qDynTable, sent, lstHeaderFields, nHeaderCount, status, blocks>>

HpackInit ==
  /\ peer = <<>> /\ qDynTable = <<>> /\ sent = <<>>
  /\ lstHeaderFields = <<>> /\ nHeaderCount = 0
  /\ status = "open" /\ blocks = 1

-----------------------------------------------------------------------------
(* Integers and strings *)

Septets[n \in Nat] ==
  IF n > 127 THEN <<(n % 128) + 128>> \o Septets[n \div 128] ELSE <<n>>

EncodeInteger(n, mask) == IF n < mask THEN <<n>> ELSE <<mask>> \o Septets[n - mask]

DecodeInteger[octets \in Seq(Nat)] ==
  IF octets = <<>> THEN 0
  ELSE (Head(octets) % 128)
       + IF Head(octets) < 128 THEN 0 ELSE 128 * DecodeInteger[Tail(octets)]

DecodeIndex(octets, mask) ==
  IF octets[1] = mask THEN mask + DecodeInteger[Tail(octets)] ELSE octets[1]

\* No code of 12 bits, as "#" and ">" have, is ever looked for.
BITNUMBERS == {5, 6, 7, 8, 10, 11} \cup 13 .. 15 \cup 19 .. 28 \cup {30}

AllOnes(bits) == \A i \in DOMAIN bits : bits[i] = 1

Codes(bits) ==
  {c \in DOMAIN HUFFCODES : /\ Len(HUFFCODES[c]) \in BITNUMBERS
                            /\ IsPrefix(HUFFCODES[c], bits)
                            /\ ~AllOnes(HUFFCODES[c])}

\* Up to the last octet, the rest of which must be ones.
HufmanDecode[bits \in Seq({0, 1})] ==
  LET last == Len(bits) <= 8 /\ AllOnes(bits) IN
  IF Len(bits) < 5 \/ last \/ Codes(bits) = {}
  THEN [text |-> <<>>, valid |-> last]
  ELSE LET c == CHOOSE c \in Codes(bits) :
                  \A d \in Codes(bits) : Len(HUFFCODES[c]) <= Len(HUFFCODES[d])
           rest == HufmanDecode[SubSeq(bits, Len(HUFFCODES[c]) + 1, Len(bits))]
       IN  [rest EXCEPT !.text = <<c>> \o @]

HufmanEncode(text) ==
  LET bits == FlattenSeq([i \in DOMAIN text |-> HUFFCODES[text[i]]])
  IN  bits \o [i \in 1 .. (8 - (Len(bits) % 8)) % 8 |-> 1]

\* The two ways to send a value, and whichever is shorter.
Huffman == [v \in DOMAIN Chars |-> [huffman |-> TRUE, data |-> HufmanEncode(Chars[v])]]

Plain == [v \in DOMAIN Chars |-> [huffman |-> FALSE, data |-> Chars[v]]]

EncodeString(v) ==
  IF Len(Huffman[v].data) < 8 * Len(Chars[v]) THEN Huffman[v] ELSE Plain[v]

\* The value that is spelled so; there is none for what no peer spelled.
DecodeString ==
  [s \in Range(Huffman) \cup Range(Plain) |->
     LET read == IF s.huffman THEN HufmanDecode[s.data] ELSE [text |-> s.data, valid |-> TRUE]
         values == {v \in DOMAIN Chars : Chars[v] = read.text}
     IN  IF read.valid /\ values # {} THEN CHOOSE v \in values : TRUE ELSE "error"]

HasEntry(table, i) == i - Statics <= Len(table)

EntryAt(table, i) == IF i <= Statics THEN StaticHeaderListe[i] ELSE table[i - Statics]

-----------------------------------------------------------------------------
(* What may be sent *)

Indexed(i) == [kind |-> "indexed", index |-> EncodeInteger(i, 127)]

Mask(kind) == CASE kind = "indexed" -> 127 [] kind = "incremental" -> 63
                [] kind = "size" -> 31 [] OTHER -> 15

Literal(kind, i, name, value) ==
  [kind |-> kind, index |-> EncodeInteger(i, Mask(kind)), name |-> name, value |-> value]

\* The first static entry with that name and no value or that value; a literal
\* is never to be inserted.
HPackEncode(f) ==
  LET fits == {i \in 1 .. Statics : /\ StaticHeaderListe[i].name = f.name
                                    /\ StaticHeaderListe[i].value \in {"", f.value}}
      first == CHOOSE i \in fits : \A k \in fits : i <= k
      value == EncodeString(f.value)
  IN  IF fits = {} THEN Literal("plain", 0, f.name, value)
      ELSE IF StaticHeaderListe[first].value # "" THEN Indexed(first)
      ELSE Literal("plain", first, f.name, value)

\* Any other peer's choice: every index that stands for the field or its name.
Instructions(f) ==
  LET indices == {i \in 1 .. Statics + Len(peer) : EntryAt(peer, i).name = f.name}
  IN  {HPackEncode(f)}
      \cup {Indexed(i) : i \in {k \in indices : EntryAt(peer, k).value = f.value}}
      \cup {Literal(kind, i, f.name, value) :
              kind \in {"incremental", "plain"}, i \in indices \cup {0},
              value \in {Huffman[f.value], Plain[f.value]}}

-----------------------------------------------------------------------------
(* Decoding *)

Refused == [name |-> "error", value |-> "error"]

IllegalName(name) ==
  \/ name \in Pseudo /\ \A i \in 1 .. Statics : StaticHeaderListe[i].name # name
  \/ name \in Capitals
  \/ name = "connection"

HPackDecode(w) ==
  LET i == DecodeIndex(w.index, Mask(w.kind)) IN
  IF i > 0 /\ ~HasEntry(qDynTable, i) THEN Refused
  ELSE IF w.kind = "indexed"
  THEN IF i = 0 THEN Refused ELSE EntryAt(qDynTable, i)
  ELSE IF (i = 0 /\ IllegalName(w.name)) \/ DecodeString[w.value] = "error" THEN Refused
  ELSE [name |-> IF i = 0 THEN w.name ELSE EntryAt(qDynTable, i).name,
        value |-> DecodeString[w.value]]

InsertBack(w, f) ==           \* mutant: the newest entry is the last one
  qDynTable' = IF w.kind = "incremental" THEN Append(qDynTable, f) ELSE qDynTable

Insert(w, f) ==
  qDynTable' = IF w.kind = "incremental" THEN <<f>> \o qDynTable ELSE qDynTable

Named(name) == \E i \in DOMAIN lstHeaderFields : lstHeaderFields[i].name = name

PseudoIllegal(f) ==
  f.name \in Pseudo /\ (Named(f.name) \/ \E i \in DOMAIN lstHeaderFields :
                                            lstHeaderFields[i].name \notin Pseudo)

FieldIllegal(f) == PseudoIllegal(f) \/ (f.name = "te" /\ f.value # "trailers")

AddField(f) ==
  IF f.name = "cookie" /\ Named("cookie")
  THEN [i \in DOMAIN lstHeaderFields |->
          IF lstHeaderFields[i].name = "cookie"
          THEN [lstHeaderFields[i] EXCEPT !.values = Append(@, f.value)]
          ELSE lstHeaderFields[i]]
  ELSE Append(lstHeaderFields, [name |-> f.name, values |-> <<f.value>>])

Http2DecodeHeader(w) ==
  LET f == HPackDecode(w) IN
  IF f = Refused
  THEN status' = "refused" /\ UNCHANGED <<qDynTable, lstHeaderFields, nHeaderCount>>
  ELSE /\ Insert(w, f)
       /\ nHeaderCount' = nHeaderCount + 1
       /\ IF FieldIllegal(f)
          THEN status' = "refused" /\ UNCHANGED lstHeaderFields
          ELSE lstHeaderFields' = AddField(f) /\ UNCHANGED status

-----------------------------------------------------------------------------
Beginnings(table) == {SubSeq(table, 1, k) : k \in 0 .. Len(table)}

\* The peer inserts, and evicts the oldest entries if it must.
Send(f, w) ==
  /\ status = "open" /\ Len(sent) < MaxFields
  /\ w.kind = "incremental" => Len(qDynTable) < MaxEntries
  /\ sent' = Append(sent, f)
  /\ peer' \in IF w.kind = "incremental" THEN Beginnings(<<f>> \o peer) ELSE {peer}
  /\ Http2DecodeHeader(w)
  /\ UNCHANGED blocks

\* The setting of a new connection.
HEADER_TABLE_SIZE == 4096

\* A dynamic table size update, which is taken before the first field, and up
\* to the setting; only one to 0 is obeyed.
SizeUpdate(size) ==
  LET n == DecodeIndex(EncodeInteger(size, 31), 31)
      legal == nHeaderCount = 0 /\ n <= HEADER_TABLE_SIZE
  IN
  /\ status = "open"
  /\ sent' = IF legal THEN sent ELSE Append(sent, [name |-> "update", value |-> ""])
  /\ peer' \in IF size = 0 THEN {<<>>} ELSE Beginnings(peer)
  /\ qDynTable' = IF legal /\ n = 0 THEN <<>> ELSE qDynTable
  /\ status' = IF legal THEN "open" ELSE "refused"
  /\ UNCHANGED <<lstHeaderFields, nHeaderCount, blocks>>

NextBlock ==
  /\ status = "open" /\ sent # <<>> /\ blocks < MaxBlocks
  /\ blocks' = blocks + 1
  /\ sent' = <<>> /\ lstHeaderFields' = <<>> /\ nHeaderCount' = 0
  /\ UNCHANGED <<peer, qDynTable, status>>

HpackNext ==
  \/ \E f \in Fields : \E w \in Instructions(f) : Send(f, w)
  \/ \E size \in TableSizes : SizeUpdate(size)
  \/ NextBlock

HpackSpec == HpackInit /\ [][HpackNext]_hpackVars
-----------------------------------------------------------------------------
HpackTypeOK ==
  /\ \A i \in DOMAIN qDynTable : qDynTable[i] \in Fields
  /\ \A i \in DOMAIN peer : peer[i] \in Fields
  /\ nHeaderCount \in 0 .. MaxFields /\ blocks \in 1 .. MaxBlocks
  /\ status \in {"open", "refused"}

\* A header HTTP/2 allows: the pseudo fields first, known and once each, and no
\* size update behind a field.
WellFormed(fields) ==
  \A i \in DOMAIN fields :
    LET f == fields[i] IN
    /\ f.name \notin Capitals \cup {"connection", "update"}
    /\ f.name = "te" => f.value = "trailers"
    /\ f.name \in Pseudo =>
         /\ f.name \in {":authority", ":method", ":path", ":scheme", ":status"}
         /\ \A k \in 1 .. i - 1 : fields[k].name \in Pseudo \ {f.name}

\* The places of cookies, and those of what has an item of its own: all cookies
\* go to the item of the first.
Cookies(fields) == {k \in DOMAIN fields : fields[k].name = "cookie"}

Shown(fields) == {k \in DOMAIN fields : k \notin Cookies(fields)
                                        \/ \A c \in Cookies(fields) : k <= c}

\* The number of the place k among those of a set.
Nth(places, k) == Cardinality({p \in places : p <= k})

\* The list has the fields in the order in which they were sent.
ReadAs(list, fields) ==
  /\ Len(list) = Cardinality(Shown(fields))
  /\ \A k \in Shown(fields) :
       LET item == list[Nth(Shown(fields), k)] IN
       /\ item.name = fields[k].name
       /\ IF item.name # "cookie" THEN item.values = <<fields[k].value>>
          ELSE /\ Len(item.values) = Cardinality(Cookies(fields))
               /\ \A c \in Cookies(fields) :
                    item.values[Nth(Cookies(fields), c)] = fields[c].value

\* However a peer encodes its header blocks, and whatever it evicts: each is
\* read as the fields it sent, and one that HTTP/2 does not allow, and no
\* other, is refused.
HeadersDecoded ==
  /\ (status = "open" <=> WellFormed(sent))
  /\ status = "open" => ReadAs(lstHeaderFields, sent)
=============================================================================
