--------------------------------- MODULE Keys ---------------------------------
(***************************************************************************)
(* How names are written: the keys of the index (pkg/gunkan/index_key.go)  *)
(* and the identifiers of the blobs (pkg/gunkan/blob.go), the URLs that    *)
(* carry the latter, and the order in which the index stores keep their    *)
(* keys.                                                                   *)
(*                                                                         *)
(* A text is a sequence of symbols, that are naturals in the order of      *)
(* their bytes.  The only symbol that matters to the encodings is the      *)
(* comma; the digits of a position are one symbol, Small when the number   *)
(* is under 2^31, Large when it is not.                                    *)
(***************************************************************************)
EXTENDS Naturals, Sequences

Comma == 44

Small == 48

Large == 49

Text == Seq(Nat)

Commas(s) == {i \in 1 .. Len(s) : s[i] = Comma}

CommaFree(s) == Commas(s) = {}

-----------------------------------------------------------------------------
(* The keys of the index.                                                  *)

BaseKey == [base : Text, key : Text]

BK(base, key) == [base |-> base, key |-> key]

(* fmt.Sprintf("%s,%s", n.Base, n.Key)                                     *)
Encode(bk) == bk.base \o <<Comma>> \o bk.key

(* DecodeString, into a BaseKey that is empty: the first comma ends the    *)
(* base, and the others are a part of the key                              *)
Decode(s) ==
    IF CommaFree(s) THEN BK(s, <<>>)
    ELSE LET c == CHOOSE i \in Commas(s) : \A j \in Commas(s) : i <= j
         IN  BK(SubSeq(s, 1, c - 1), SubSeq(s, c + 1, Len(s)))

(* bytes.Compare(s, t) < 0: at the first difference s is smaller, or ends  *)
Less(s, t) ==
    \E n \in 0 .. Len(s) :
        /\ n < Len(t)
        /\ \A i \in 1 .. n : s[i] = t[i]
        /\ n = Len(s) \/ s[n + 1] < t[n + 1]

-----------------------------------------------------------------------------
(* The identifiers of the blobs.                                           *)

BlobId == [bucket : Text, content : Text, part : Text, position : {Small, Large}]

(* The position, after the last comma of the other three                   *)
EncodeBlobId(id) ==
    Encode(BK(id.bucket, Encode(BK(id.content, Encode(BK(id.part, <<id.position>>))))))

(* What follows the first, the second and the third comma                  *)
After1(s) == Decode(s).key

After2(s) == Decode(After1(s)).key

After3(s) == Decode(After2(s)).key

(* What DecodeBlobId takes for the position: what follows the third comma, *)
(* or the last one if there are fewer; the fields that lack are left empty *)
Position(s) ==
    IF CommaFree(s) THEN s
    ELSE IF CommaFree(After1(s)) THEN After1(s)
    ELSE IF CommaFree(After2(s)) THEN After2(s)
    ELSE After3(s)

(* A bug to tell apart: the position may stand behind other symbols.       *)
IsBlobIdLoose(s) == Position(s) # <<>> /\ Position(s)[Len(Position(s))] = Small

(* DecodeBlobId fails when the position is not a number that ParseUint     *)
(* takes for 31 bits, or if a fourth comma is in it.                       *)
IsBlobId(s) == Position(s) = <<Small>>

DecodeBlobId(s) ==
    [bucket   |-> IF CommaFree(s) THEN <<>> ELSE Decode(s).base,
     content  |-> IF CommaFree(After1(s)) THEN <<>> ELSE Decode(After1(s)).base,
     part     |-> IF CommaFree(After2(s)) THEN <<>> ELSE Decode(After2(s)).base,
     position |-> Position(s)[1]]

-----------------------------------------------------------------------------
(* The URLs of the blobs: the identifier is written at the end of one as   *)
(* it is, net/url parses it, and the store reads the Path.                 *)

Percent == 37

Question == 63

Hash == 35

Occurrences(s, x) == {i \in 1 .. Len(s) : s[i] = x}

(* A name that a URL carries unchanged                                     *)
Plain(s) == \A x \in {Percent, Question, Hash} : Occurrences(s, x) = {}

(* What stands before the first x, or the whole                            *)
UpTo(s, x) ==
    IF Occurrences(s, x) = {} THEN s
    ELSE LET f == CHOOSE i \in Occurrences(s, x) : \A j \in Occurrences(s, x) : i <= j
         IN  SubSeq(s, 1, f - 1)

Hex == 48 .. 57 \cup 65 .. 70 \cup 97 .. 102

HexValue(x) == IF x <= 57 THEN x - 48 ELSE IF x <= 70 THEN x - 55 ELSE x - 87

AreEscapes(s) ==
    \A i \in Occurrences(s, Percent) : i + 2 <= Len(s) /\ {s[i + 1], s[i + 2]} \subseteq Hex

(* The two digits of each escape go, and the byte takes the place of '%'.  *)
Unescape(s) ==
    LET byte(i) == IF s[i] = Percent THEN 16 * HexValue(s[i + 1]) + HexValue(s[i + 2]) ELSE s[i]
        stays(i) == \A j \in Occurrences(s, Percent) : i \notin {j + 1, j + 2}
        kept == SelectSeq([i \in 1 .. Len(s) |-> i], stays)
    IN  IF Occurrences(s, Percent) = {} THEN s ELSE [n \in DOMAIN kept |-> byte(kept[n])]

(* The fragment goes first, then the query; the path is unescaped.         *)
RawPath(s) == UpTo(UpTo(s, Hash), Question)

UrlPath(s) == Unescape(RawPath(s))

(* A URL holds no control character, and no '%' that is not an escape, but *)
(* in the query                                                            *)
IsUrl(s) ==
    /\ \A i \in 1 .. Len(s) : s[i] >= 32 /\ s[i] # 127
    /\ AreEscapes(RawPath(s))
    /\ AreEscapes(SubSeq(s, Len(UpTo(s, Hash)) + 1, Len(s)))

-----------------------------------------------------------------------------
(* The identifiers of the parts (pkg/gunkan/part.go).                      *)

PartId == [bucket : Text, content : Text, part : Text]

EncodePartId(id) == Encode(BK(id.content, Encode(BK(id.part, id.bucket))))

IsPartId(s) == CommaFree(After2(s))

(* Decode, into a PartId that is empty: the first two fields are stored in *)
(* Content, one over the other, and none in Bucket.                        *)
DecodePartId(s) ==
    [bucket  |-> <<>>,
     content |-> IF CommaFree(s) THEN <<>>
                 ELSE IF CommaFree(After1(s)) THEN Decode(s).base
                 ELSE Decode(After1(s)).base,
     part    |-> IF CommaFree(s) THEN s
                 ELSE IF CommaFree(After1(s)) THEN After1(s) ELSE After2(s)]
=============================================================================
