------------------------------ MODULE TextFormat ------------------------------
(***************************************************************************)
(* The pure functions that requests and replies are taken apart and put     *)
(* together with.  A text is a sequence of characters.  A behaviour picks   *)
(* an input and computes; the results are compared with definitions that    *)
(* say what they should be.                                                 *)
(***************************************************************************)
EXTENDS Integers, Sequences, FiniteSets, SequencesExt, Chunks

CONSTANTS MaxText, MaxWords, MaxList, MaxChunk     \* bounds of the inputs

Field == "?"         \* FIELD_DELIMITER_CHAR
Entry == "\n"        \* ENTRY_DELIMITER_CHAR
Char  == {"a", "b", Field, Entry}

(***************************************************************************)
(* Utility                                                                  *)
(***************************************************************************)
\* splitStringOn, getline: what is read of s so far, and the pieces before it.
Getlines(s, d) ==
  LET read[i \in 0..Len(s)] ==
        IF i = 0 THEN [item |-> <<>>, out |-> <<>>]
        ELSE LET before == read[i - 1]
             IN IF s[i] = d THEN [item |-> <<>>, out |-> Append(before.out, before.item)]
                ELSE [item |-> Append(before.item, s[i]), out |-> before.out]
  IN  read[Len(s)]

\* MUTANT of splitStringOn: the last piece is kept although it is empty.
KeepsLastEmpty(s, d) == Append(Getlines(s, d).out, Getlines(s, d).item)

\* getline until the stream has no character left.
splitStringOn(s, d) ==
  LET end == Getlines(s, d)
  IN  IF end.item = <<>> THEN end.out ELSE Append(end.out, end.item)

\* appendBy of one word, for every word.
Ended(words, sep) == FlattenSeq([i \in DOMAIN words |-> Append(words[i], sep)])

\* A separator after every word, the last one replaced by the end character.
appendBy(words, sep, last) ==
  Append(IF words = <<>> THEN <<>> ELSE Front(Ended(words, sep)), last)

hashToUUIDString(h) ==
  SubSeq(h, 1, 8) \o <<"-">> \o SubSeq(h, 9, 12) \o <<"-">> \o SubSeq(h, 13, 16) \o <<"-">>
    \o SubSeq(h, 17, 20) \o <<"-">> \o SubSeq(h, 21, 32)

\* erase_all.
uuidStringToHash(u) == FlattenSeq([i \in DOMAIN u |-> IF u[i] = "-" THEN <<>> ELSE <<u[i]>>])

(***************************************************************************)
(* HTTPStatusCodes                                                          *)
(***************************************************************************)
Codes == {<<"2", "0", "0">>, <<"4", "0", "0">>, <<"5", "0", "0">>}

constructMessage(code, message) == code \o <<Entry>> \o message

\* Texts are never empty here: the code takes the first entry of one.
validCode(s) == splitStringOn(s, Entry)[1] \in Codes

getCode(s) == IF validCode(s) THEN splitStringOn(s, Entry)[1] ELSE <<"5", "0", "0">>

\* MUTANT of getMessage: the second entry instead of all that follows.
SecondEntry(s) == IF validCode(s) /\ Len(splitStringOn(s, Entry)) > 1 THEN splitStringOn(s, Entry)[2] ELSE s

getMessage(s) == IF validCode(s) THEN SubSeq(s, 5, Len(s)) ELSE s

(***************************************************************************)
(* DatabaseRequestHandler                                                   *)
(***************************************************************************)
\* The loop of toChunks: the chunks that are full, and the one being filled.
Chunked(list, n) ==
  LET after[i \in 0..Len(list)] ==
        IF i = 0 THEN [cur |-> <<>>, out |-> <<>>]
        ELSE LET before == after[i - 1]
                 cur == Append(before.cur, list[i])
             IN IF Len(cur) >= n THEN [cur |-> <<>>, out |-> Append(before.out, cur)]
                ELSE [cur |-> cur, out |-> before.out]
  IN  after[Len(list)]

\* MUTANT of toChunks: the last chunk is forgotten when it is not full.
DropsRest(list, n) == Chunked(list, n).out

toChunks(list, n) ==
  LET end == Chunked(list, n)
  IN  IF end.cur = <<>> THEN end.out ELSE Append(end.out, end.cur)

cartesianProductQueue(ks, ls) ==
  FlattenSeq([i \in DOMAIN ks |-> [j \in DOMAIN ls |-> <<ks[i], ls[j]>>]])

(***************************************************************************)
(* Behaviours                                                               *)
(***************************************************************************)
HexChars == <<"0", "1", "2", "3", "4", "5", "6", "7", "8", "9", "a", "b", "c", "d", "e", "f">>
Word     == BoundedSeq({"a", "b"}, 2)
Input    ==
  [kind : {"text"},  text : BoundedSeq(Char, MaxText)] \cup
  [kind : {"words"}, words : BoundedSeq(Word, MaxWords)] \cup
  [kind : {"list"},  list : {[i \in 1..n |-> i] : n \in 0..MaxList}, n : 1..MaxChunk,
   files : {[i \in 1..n |-> i] : n \in 0..MaxList}] \cup
  [kind : {"hash"},  hash : {[i \in 1..32 |-> HexChars[(i % k) + 1]] : k \in 1..16}] \cup
  [kind : {"reply"}, code : Codes, text : BoundedSeq(Char, MaxText - 2)]

VARIABLES input, result

Compute(i) ==
  CASE i.kind = "text"  -> [split |-> splitStringOn(i.text, Field)]
    [] i.kind = "words" -> [split |-> splitStringOn(Front(appendBy(i.words, Field, Entry)), Field)]
    [] i.kind = "list"  -> [chunks |-> toChunks(i.list, i.n),
                            pairs |-> cartesianProductQueue(toChunks(i.list, i.n), i.files)]
    [] i.kind = "hash"  -> [uuid |-> hashToUUIDString(i.hash),
                            hash |-> uuidStringToHash(hashToUUIDString(i.hash))]
    [] i.kind = "reply" -> [code |-> getCode(constructMessage(i.code, i.text)),
                            message |-> getMessage(constructMessage(i.code, i.text))]

Init == input \in Input /\ result = <<>>
Next == result = <<>> /\ result' = Compute(input) /\ UNCHANGED input
Spec == Init /\ [][Next]_<<input, result>>

(***************************************************************************)
(* Properties                                                               *)
(***************************************************************************)
Done(kind) == result # <<>> /\ input.kind = kind

\* splitStringOn returns the pieces between the delimiters, empty ones included: no
\* piece has a delimiter, and the pieces, each with a delimiter after it, are the text;
\* or the text and a delimiter, when it has none at its end.
SplitIsPieces ==
  Done("text") =>
    /\ \A i \in DOMAIN result.split : ~Contains(result.split[i], Field)
    /\ Ended(result.split, Field) = IF input.text = <<>> \/ Last(input.text) = Field THEN input.text
                                    ELSE Append(input.text, Field)

\* toChunks and cartesianProductQueue return what the uploads are modelled with:
\* every element in one chunk, every chunk with every list of files once.
ChunksAndPairs ==
  Done("list") =>
    /\ result.chunks = ToChunks(input.list, input.n)
    /\ result.pairs = Pairs(result.chunks, input.files)

\* What is put together comes apart again: words joined by appendBy, but for a last
\* one that is empty, which a receiver does not see; a hash that was stored as a UUID
\* of five groups; the code and the message of a reply, also when it has newlines.
RoundTrips ==
  /\ Done("words") =>
       result.split = IF input.words # <<>> /\ Last(input.words) = <<>> THEN Front(input.words)
                      ELSE input.words
  /\ Done("hash")  => result.hash = input.hash /\ Len(result.uuid) = 36
  /\ Done("reply") => result.code = input.code /\ result.message = input.text
=============================================================================
