----------------------------- MODULE LzmaCodec ------------------------------
(***************************************************************************)
(* The LZMA streams of an image: LZMACompress (lib/lzma.cc) with the       *)
(* encoder of the bundled SDK (lzma/C/LzmaEnc.c) writes one, and           *)
(* LZMADeCompress of the driver and of the tools reads it in one call of   *)
(* LzmaDecode (lzma/C/LzmaDec.c).                                          *)
(*                                                                         *)
(* The arithmetic is done bit by bit, with the carry of the encoder and    *)
(* the look-ahead of the decoder; sizes are constants: a byte of the       *)
(* stream and of the data has ByteBits bits, a word four bytes.            *)
(* Which parse of the data is cheapest is a question of prices; the        *)
(* encoder may take every parse that repeats what is in the dictionary.    *)
(***************************************************************************)
EXTENDS Integers, Sequences, FiniteSets, TLC, SequencesExt

CONSTANTS
    Compressions,    \* calls of LZMACompress: [data, pb, lp, lc]
    ByteBits,        \* 8
    ModelBits,       \* kNumBitModelTotalBits, 11
    MoveBits,        \* kNumMoveBits, 5
    LenBits,         \* kLenNumLowBits, kLenNumMidBits and kLenNumHighBits: 3, 3, 8
    SlotBits,        \* kNumPosSlotBits, 6
    EndPosModel,     \* kEndPosModelIndex, 14
    AlignBits,       \* kNumAlignBits, 4
    RequiredInput,   \* LZMA_REQUIRED_INPUT_MAX, 20
    MaxDict,         \* the largest dictionary, 1 << 30
    Cuts             \* how many bytes at the end of a stream may be lost

VARIABLES
    lzma,            \* the call, or the stream: [data, pb, lp, lc, dict]
    enc,             \* CLzmaEnc, with its CRangeEnc
    stream,          \* what is stored: [props, dict, size, bytes, whole]
    dec              \* CLzmaDec, and where LzmaDec_DecodeReal is

codecVars == <<lzma, enc, stream, dec>>

ByteBase == 2^ByteBits
kTopValue == ByteBase^3
WordBase == ByteBase^4
kBitModelTotal == 2^ModelBits
kProbInitValue == kBitModelTotal \div 2
NumLow == 2^LenBits[1]
NumMid == 2^LenBits[2]
LZMA_MATCH_LEN_MAX == 2 + NumLow + NumMid + 2^LenBits[3] - 1
kStartPosModelIndex == 4
kNumLenToPosStates == 4
\* The distance of the end marker, which this program never writes: a decoder
\* that meets one with the code 0 is at the end.
EndMark == 2^(2^(SlotBits - 1)) - 1

Prob(probs, c) == IF c \in DOMAIN probs THEN probs[c] ELSE kProbInitValue

Moved(p, bit) == IF bit = 0 THEN p + ((kBitModelTotal - p) \div 2^MoveBits)
                 ELSE p - (p \div 2^MoveBits)

\* SelectDictionarySizeFor.
DictionaryFor(length) == IF length >= MaxDict THEN MaxDict ELSE length

-----------------------------------------------------------------------------
(* The range encoder.                                                        *)

\* Mutant: a carry is lost.
ShiftWithoutCarry(e) ==
    LET low32 == e.low % WordBase
        out   == e.low < (ByteBase - 1) * kTopValue \/ e.low >= WordBase
    IN  [e EXCEPT !.bytes = IF out THEN @ \o <<e.cache>> \o [i \in 1 .. e.cacheSize - 1 |-> ByteBase - 1] ELSE @,
                  !.cache = IF out THEN low32 \div kTopValue ELSE @,
                  !.cacheSize = IF out THEN 1 ELSE @ + 1,
                  !.low = (low32 * ByteBase) % WordBase]

\* The top byte is kept back while a carry may still change it, and with it
\* the bytes 0xFF after it.
RangeEnc_ShiftLow(e) ==
    LET low32 == e.low % WordBase
        carry == e.low \div WordBase
        out   == low32 < (ByteBase - 1) * kTopValue \/ carry # 0
    IN  [e EXCEPT !.bytes = IF out
                            THEN @ \o <<(e.cache + carry) % ByteBase>>
                                   \o [i \in 1 .. e.cacheSize - 1 |-> (ByteBase - 1 + carry) % ByteBase]
                            ELSE @,
                  !.cache = IF out THEN low32 \div kTopValue ELSE @,
                  !.cacheSize = IF out THEN 1 ELSE @ + 1,
                  !.low = (low32 * ByteBase) % WordBase]

ShiftIfSmall(e) ==
    IF e.range < kTopValue THEN RangeEnc_ShiftLow([e EXCEPT !.range = @ * ByteBase]) ELSE e

RangeEnc_EncodeBit(e, x) ==
    LET p        == Prob(e.probs, x.ctx)
        newBound == (e.range \div kBitModelTotal) * p
    IN  ShiftIfSmall([e EXCEPT !.low = IF x.bit = 0 THEN @ ELSE @ + newBound,
                               !.range = IF x.bit = 0 THEN newBound ELSE @ - newBound,
                               !.probs = (x.ctx :> Moved(p, x.bit)) @@ @])

RangeEnc_EncodeDirectBit(e, bit) ==
    LET half == e.range \div 2
    IN  ShiftIfSmall([e EXCEPT !.range = half, !.low = @ + half * bit])

Direct == <<"direct", 0, 0, 0>>

Encode(e, x) == IF x.ctx = Direct THEN RangeEnc_EncodeDirectBit(e, x.bit) ELSE RangeEnc_EncodeBit(e, x)

\* RangeEnc_FlushData.
FlushData(e) == FoldLeft(LAMBDA f, i : RangeEnc_ShiftLow(f), e, <<1, 2, 3, 4, 5>>)

-----------------------------------------------------------------------------
(* Symbols as bits, each with the probability it is coded with.              *)

BitsOf(symbol, n) == [i \in 1 .. n |-> (symbol \div 2^(n - i)) % 2]

Node(bits) == FoldLeft(LAMBDA node, bit : 2 * node + bit, 1, bits)

Coded(k, a, b, base, bits) ==
    [i \in 1 .. Len(bits) |-> [ctx |-> <<k, a, b, base + Node(SubSeq(bits, 1, i - 1))>>, bit |-> bits[i]]]

One(k, a, b, bit) == <<[ctx |-> <<k, a, b, 0>>, bit |-> bit]>>

RcTree_Encode(k, a, b, n, symbol) == Coded(k, a, b, 0, BitsOf(symbol, n))

RcTree_ReverseEncode(k, base, n, symbol) == Coded(k, 0, 0, base, Reverse(BitsOf(symbol, n)))

LitEnc_Encode(litstate, byte) == Coded("lit", litstate, 0, 0, BitsOf(byte, ByteBits))

\* As long as the bits are those of the byte at the last distance, its next bit
\* is part of the context.
LitEnc_EncodeMatched(litstate, byte, matchByte) ==
    LET bits == BitsOf(byte, ByteBits)
        like == BitsOf(matchByte, ByteBits)
        offs(i) == IF SubSeq(bits, 1, i - 1) = SubSeq(like, 1, i - 1) THEN ByteBase ELSE 0
    IN  [i \in 1 .. ByteBits |->
           [ctx |-> <<"lit", litstate, 0, offs(i) * (1 + like[i]) + Node(SubSeq(bits, 1, i - 1))>>,
            bit |-> bits[i]]]

LenEnc_Encode(coder, symbol, posState) ==
    IF symbol < NumLow
    THEN One("choice", coder, 0, 0) \o RcTree_Encode("low", coder, posState, LenBits[1], symbol)
    ELSE One("choice", coder, 0, 1) \o
         IF symbol < NumLow + NumMid
         THEN One("choice2", coder, 0, 0) \o RcTree_Encode("mid", coder, posState, LenBits[2], symbol - NumLow)
         ELSE One("choice2", coder, 0, 1)
              \o RcTree_Encode("high", coder, 0, LenBits[3], symbol - NumLow - NumMid)

FooterBits(slot) == (slot \div 2) - 1

\* The least distance of a slot.
SlotBase(slot) == (2 + (slot % 2)) * 2^FooterBits(slot)

\* The table of LzmaEnc_FastPosInit.
GetPosSlot(dist) ==
    IF dist < 2 THEN dist
    ELSE CHOOSE s \in 2 .. 2^SlotBits - 1 : SlotBase(s) <= dist /\ dist < SlotBase(s) + 2^FooterBits(s)

GetLenToPosState(len) == IF len < kNumLenToPosStates + 1 THEN len - 2 ELSE kNumLenToPosStates - 1

Distance(dist, len) ==
    LET slot    == GetPosSlot(dist)
        bits    == FooterBits(slot)
        reduced == dist - SlotBase(slot)
    IN  RcTree_Encode("slot", GetLenToPosState(len), 0, SlotBits, slot)
        \o IF slot < kStartPosModelIndex THEN <<>>
           ELSE IF slot < EndPosModel
           THEN RcTree_ReverseEncode("spec", SlotBase(slot) - slot - 1, bits, reduced)
           ELSE [i \in 1 .. bits - AlignBits |-> [ctx |-> Direct, bit |-> BitsOf(reduced, bits)[i]]]
                \o RcTree_ReverseEncode("align", 0, AlignBits, reduced % 2^AlignBits)

-----------------------------------------------------------------------------
(* LzmaEnc_CodeOneBlock.                                                     *)

kLiteralNextStates == <<0, 0, 0, 0, 1, 2, 3, 4, 5, 6, 4, 5>>
kMatchNextStates == <<7, 7, 7, 7, 7, 7, 7, 10, 10, 10, 10, 10>>
kRepNextStates == <<8, 8, 8, 8, 8, 8, 8, 11, 11, 11, 11, 11>>
kShortRepNextStates == <<9, 9, 9, 9, 9, 9, 9, 11, 11, 11, 11, 11>>

\* LzmaEnc_Init and RangeEnc_Init.
EncoderInit ==
    [pc |-> "code", pos |-> 0, state |-> 0, reps |-> <<0, 0, 0, 0>>, low |-> 0, range |-> WordBase - 1,
     cache |-> 0, cacheSize |-> 1, bytes |-> <<>>, probs |-> <<>>]

PosState == enc.pos % 2^lzma.pb

LitState(pos, prev) == (pos % 2^lzma.lp) * 2^lzma.lc + (prev \div 2^(ByteBits - lzma.lc))

Available == Len(lzma.data) - enc.pos

DataAt(i) == lzma.data[i + 1]

\* The data repeats at a distance (1 less than how far it is).
Repeats(dist, len) == dist < enc.pos /\ \A i \in 0 .. len - 1 : DataAt(enc.pos + i) = DataAt(enc.pos + i - dist - 1)

\* What GetOptimum may choose with the matches it has.
Lengths == 2 .. (IF Available < LZMA_MATCH_LEN_MAX THEN Available ELSE LZMA_MATCH_LEN_MAX)

GetMatches(dist, len) == len \in Lengths /\ dist < lzma.dict /\ Repeats(dist, len)

Packet(list, next, reps, len) ==
    enc' = [FoldLeft(Encode, enc, list) EXCEPT !.state = next[@ + 1], !.reps = reps, !.pos = @ + len]

IsMatch(bit) == One("match", enc.state, PosState, bit)

IsRep(bit) == IsMatch(1) \o One("rep", enc.state, 0, bit)

FirstByte ==
    /\ enc.pc = "code" /\ enc.pos = 0 /\ Available > 0
    /\ Packet(One("match", enc.state, 0, 0) \o LitEnc_Encode(0, DataAt(0)), kLiteralNextStates, enc.reps, 1)
    /\ UNCHANGED <<lzma, stream, dec>>

CodeLiteral ==
    /\ enc.pc = "code" /\ enc.pos > 0 /\ Available > 0
    /\ LET litstate == LitState(enc.pos, DataAt(enc.pos - 1))
       IN  Packet(IsMatch(0) \o
                  IF enc.state < 7 THEN LitEnc_Encode(litstate, DataAt(enc.pos))
                  ELSE LitEnc_EncodeMatched(litstate, DataAt(enc.pos), DataAt(enc.pos - enc.reps[1] - 1)),
                  kLiteralNextStates, enc.reps, 1)
    /\ UNCHANGED <<lzma, stream, dec>>

CodeShortRep ==
    /\ enc.pc = "code" /\ enc.pos > 0 /\ Available > 0 /\ Repeats(enc.reps[1], 1)
    /\ Packet(IsRep(1) \o One("g0", enc.state, 0, 0) \o One("long", enc.state, PosState, 0),
              kShortRepNextStates, enc.reps, 1)
    /\ UNCHANGED <<lzma, stream, dec>>

CodeRep(i, len) ==
    /\ enc.pc = "code" /\ enc.pos > 0 /\ len \in Lengths /\ Repeats(enc.reps[i + 1], len)
    /\ LET g(k, bit) == One(k, enc.state, 0, bit)
           which == CASE i = 0 -> g("g0", 0) \o One("long", enc.state, PosState, 1)
                      [] i = 1 -> g("g0", 1) \o g("g1", 0)
                      [] i = 2 -> g("g0", 1) \o g("g1", 1) \o g("g2", 0)
                      [] i = 3 -> g("g0", 1) \o g("g1", 1) \o g("g2", 1)
       IN  Packet(IsRep(1) \o which \o LenEnc_Encode(1, len - 2, PosState), kRepNextStates,
                  <<enc.reps[i + 1]>> \o [k \in 1 .. 3 |-> IF k <= i THEN enc.reps[k] ELSE enc.reps[k + 1]], len)
    /\ UNCHANGED <<lzma, stream, dec>>

CodeMatch(dist, len) ==
    /\ enc.pc = "code" /\ enc.pos > 0 /\ GetMatches(dist, len)
    /\ Packet(IsRep(0) \o LenEnc_Encode(0, len - 2, PosState) \o Distance(dist, len), kMatchNextStates,
              <<dist>> \o SubSeq(enc.reps, 1, 3), len)
    /\ UNCHANGED <<lzma, stream, dec>>

\* LzmaEnc_WriteProperties: the dictionary size is rounded up.
WrittenDict(size) ==
    LET sizes == {f * 2^i : f \in {2, 3}, i \in 0 .. 4}
    IN  CHOOSE d \in sizes : d >= size /\ \A o \in sizes : o >= size => d <= o

\* LZMACompress: properties, length, and what the encoder writes.  The tail of
\* it may be missing from a damaged image.
Flush ==
    /\ enc.pc = "code" /\ Available = 0
    /\ enc' = [EncoderInit EXCEPT !.pc = "done"]
    /\ \E cut \in Cuts : \E all \in {FlushData(enc).bytes} :
          stream' = [props |-> (lzma.pb * 5 + lzma.lp) * 9 + lzma.lc, dict |-> WrittenDict(lzma.dict),
                     size |-> Len(lzma.data), bytes |-> SubSeq(all, 1, Len(all) - cut), whole |-> cut = 0]
    /\ UNCHANGED <<lzma, dec>>

-----------------------------------------------------------------------------
(* The decoder.  Its state while a symbol is decoded: what is read next (pc), *)
(* the node of a tree and the bits left, length and distance so far.         *)

DecoderInit ==
    [pc |-> "none", dummy |-> FALSE, buf |-> 0, bufLimit |-> 0, range |-> 0, code |-> 0, probs |-> <<>>,
     state |-> 0, reps |-> <<1, 1, 1, 1>>, dic |-> <<>>, limit |-> 0, checkDicSize |-> 0, remainLen |-> 0,
     checkEnd |-> FALSE, node |-> 1, mask |-> 1, left |-> 0, offs |-> 0, coder |-> "", len |-> 0, dist |-> 0,
     saved |-> <<0, 0, 0>>]

InSize == Len(stream.bytes) - dec.buf

\* LzmaProps_Decode.
Props == [lc |-> stream.props % 9, lp |-> (stream.props \div 9) % 5, pb |-> stream.props \div 45]

processedPos == Len(dec.dic)

\* LzmaDecode up to the first symbol: the stream begins with a zero byte and
\* four bytes of code.
BeginDecode ==
    /\ enc.pc = "done" /\ dec.pc = "none"
    /\ dec' = IF Len(stream.bytes) < 5 \/ stream.bytes[1] # 0 THEN [dec EXCEPT !.pc = "error"]
              ELSE [dec EXCEPT !.pc = "loop", !.range = WordBase - 1, !.buf = 5,
                               !.code = FoldLeft(LAMBDA c, b : c * ByteBase + b, 0, SubSeq(stream.bytes, 2, 5))]
    /\ UNCHANGED <<lzma, enc, stream>>

\* DecodeReal2 calls DecodeReal: no further than the end of the dictionary as
\* long as that is not full.
Limit2 ==
    IF dec.checkDicSize = 0 /\ stream.size - processedPos > stream.dict - processedPos
    THEN stream.dict ELSE stream.size

\* Mutant: symbols are decoded up to the end of the input.
LimitAtEnd == Len(stream.bytes)

\* As far as this, the input that a symbol may need is there.
SafeLimit == Len(stream.bytes) - RequiredInput

\* The loop of LzmaDec_DecodeToDic with LZMA_FINISH_END.
DecodeToDic ==
    /\ dec.pc = "loop"
    /\ LET full == processedPos >= stream.size
       IN  dec' = IF full /\ dec.remainLen = 0 /\ dec.code = 0 THEN [dec EXCEPT !.pc = "finished"]
                  ELSE IF full /\ dec.remainLen # 0 THEN [dec EXCEPT !.pc = "error"]
                  ELSE IF InSize < RequiredInput \/ full
                  THEN [dec EXCEPT !.pc = "match", !.dummy = TRUE, !.checkEnd = full,
                                   !.saved = <<dec.buf, dec.range, dec.code>>]
                  ELSE [dec EXCEPT !.pc = "match", !.bufLimit = SafeLimit,
                                   !.checkEnd = FALSE, !.limit = Limit2]
    /\ UNCHANGED <<lzma, enc, stream>>

\* The next byte is needed and is not there.
Lacks == dec.range < kTopValue /\ InSize = 0

\* NORMALIZE.
Normalized(d) ==
    IF d.range < kTopValue
    THEN [d EXCEPT !.range = @ * ByteBase, !.code = @ * ByteBase + stream.bytes[d.buf + 1], !.buf = @ + 1]
    ELSE d

\* IF_BIT_0, UPDATE_0 and UPDATE_1; a dummy does not change probabilities.
Bit(c) ==
    LET d     == Normalized(dec)
        p     == Prob(d.probs, c)
        bound == (d.range \div kBitModelTotal) * p
        bit   == IF d.code < bound THEN 0 ELSE 1
    IN  [bit |-> bit,
         d   |-> [d EXCEPT !.range = IF bit = 0 THEN bound ELSE @ - bound,
                           !.code = IF bit = 0 THEN @ ELSE @ - bound,
                           !.probs = IF dec.dummy THEN @ ELSE (c :> Moved(p, bit)) @@ @]]

\* A step that reads a bit.
Reads(from) == dec.pc = from /\ ~Lacks /\ UNCHANGED <<lzma, enc, stream>>

DecPosState == processedPos % 2^Props.pb

InTree(d, bit) == [d EXCEPT !.node = 2 * @ + bit, !.left = @ - 1, !.mask = 2 * @]

Tree(d, to, bits) == [d EXCEPT !.pc = to, !.node = 1, !.mask = 1, !.left = bits]

-----------------------------------------------------------------------------
(* LzmaDec_DecodeReal; LzmaDec_TryDummy reads the same bits.                 *)

DecIsMatch ==
    /\ Reads("match")
    /\ \E r \in {Bit(<<"match", dec.state, DecPosState, 0>>)} :
          dec' = IF r.bit = 0 THEN [Tree(r.d, "lit", ByteBits) EXCEPT !.offs = ByteBase, !.coder = "lit"]
                 ELSE [r.d EXCEPT !.pc = "rep"]

DecLitState ==
    IF dec.checkDicSize = 0 /\ processedPos = 0 THEN 0
    ELSE (processedPos % 2^Props.lp) * 2^Props.lc + (dec.dic[processedPos] \div 2^(ByteBits - Props.lc))

\* The bit of the byte at the last distance.
MatchBit == (dec.dic[processedPos - dec.reps[1] + 1] \div 2^(dec.left - 1)) % 2

DecLiteral ==
    /\ Reads("lit")
    /\ LET matched == dec.state >= 7
           index   == IF matched THEN dec.offs * (1 + MatchBit) + dec.node ELSE dec.node
       IN  \E r \in {Bit(<<"lit", DecLitState, 0, index>>)} :
              dec' = [InTree(r.d, r.bit) EXCEPT !.offs = IF matched /\ r.bit # MatchBit THEN 0 ELSE @,
                                                !.pc = IF dec.left = 1 THEN "symbol" ELSE @]

DecIsRep ==
    /\ Reads("rep")
    /\ \E r \in {Bit(<<"rep", dec.state, 0, 0>>)} :
          dec' = IF r.bit = 0 THEN [r.d EXCEPT !.pc = "choice", !.coder = "match"]
                 ELSE IF ~dec.dummy /\ dec.checkDicSize = 0 /\ processedPos = 0 THEN [r.d EXCEPT !.pc = "error"]
                 ELSE [r.d EXCEPT !.pc = "g0", !.coder = "rep"]

DecRepG0 ==
    /\ Reads("g0")
    /\ \E r \in {Bit(<<"g0", dec.state, 0, 0>>)} :
          dec' = [r.d EXCEPT !.pc = IF r.bit = 0 THEN "long" ELSE "g1"]

DecRep0Long ==
    /\ Reads("long")
    /\ \E r \in {Bit(<<"long", dec.state, DecPosState, 0>>)} :
          dec' = IF r.bit = 0 THEN [r.d EXCEPT !.pc = "symbol", !.coder = "shortrep"]
                 ELSE [r.d EXCEPT !.pc = "choice"]

\* Distance i is the last one now.
Turned(reps, i) == <<reps[i + 1]>> \o [k \in 1 .. 3 |-> IF k <= i THEN reps[k] ELSE reps[k + 1]]

Turn(d, i) == [d EXCEPT !.pc = "choice", !.reps = IF dec.dummy THEN @ ELSE Turned(@, i)]

DecRepG1 ==
    /\ Reads("g1")
    /\ \E r \in {Bit(<<"g1", dec.state, 0, 0>>)} :
          dec' = IF r.bit = 0 THEN Turn(r.d, 1) ELSE [r.d EXCEPT !.pc = "g2"]

DecRepG2 == Reads("g2") /\ \E r \in {Bit(<<"g2", dec.state, 0, 0>>)} : dec' = Turn(r.d, 2 + r.bit)

LenCoder == IF dec.coder = "match" THEN 0 ELSE 1

DecChoice ==
    /\ Reads("choice")
    /\ \E r \in {Bit(<<"choice", LenCoder, 0, 0>>)} :
          dec' = IF r.bit = 0 THEN [Tree(r.d, "low", LenBits[1]) EXCEPT !.len = 0]
                 ELSE [r.d EXCEPT !.pc = "choice2"]

DecChoice2 ==
    /\ Reads("choice2")
    /\ \E r \in {Bit(<<"choice2", LenCoder, 0, 0>>)} :
          dec' = IF r.bit = 0 THEN [Tree(r.d, "mid", LenBits[2]) EXCEPT !.len = NumLow]
                 ELSE [Tree(r.d, "high", LenBits[3]) EXCEPT !.len = NumLow + NumMid]

\* A bit of the length, in one of its three trees.
DecLen(tree, posState, bits) ==
    /\ Reads(tree)
    /\ \E r \in {Bit(<<tree, LenCoder, posState, dec.node>>)} : \E d \in {InTree(r.d, r.bit)} :
          dec' = IF d.left > 0 THEN d
                 ELSE LET e == [d EXCEPT !.len = @ + d.node - 2^bits]
                      IN  IF dec.coder = "match" THEN Tree(e, "slot", SlotBits) ELSE [e EXCEPT !.pc = "symbol"]

DecSlot ==
    /\ Reads("slot")
    /\ \E r \in {Bit(<<"slot", IF dec.len < kNumLenToPosStates THEN dec.len ELSE kNumLenToPosStates - 1,
                       0, dec.node>>)} : \E d \in {InTree(r.d, r.bit)} :
          LET slot == d.node - 2^SlotBits
              bits == (slot \div 2) - 1
              high == 2 + (slot % 2)
          IN  dec' = IF d.left > 0 THEN d
                     ELSE IF slot < kStartPosModelIndex THEN [d EXCEPT !.pc = "symbol", !.dist = slot]
                     ELSE IF slot < EndPosModel
                     THEN [Tree(d, "spec", bits) EXCEPT !.dist = high * 2^bits, !.offs = high * 2^bits - slot - 1]
                     ELSE [d EXCEPT !.pc = "direct", !.dist = high, !.left = bits - AlignBits]

DecReverse(from, base) ==
    /\ Reads(from)
    /\ \E r \in {Bit(<<from, 0, 0, base + dec.node>>)} :
          dec' = [InTree(r.d, r.bit) EXCEPT !.dist = @ + r.bit * dec.mask,
                                            !.pc = IF dec.left = 1 THEN "symbol" ELSE @]

DecDirect ==
    /\ Reads("direct")
    /\ \E d \in {[Normalized(dec) EXCEPT !.range = @ \div 2]} :
          LET bit  == IF d.code >= d.range THEN 1 ELSE 0
              next == [d EXCEPT !.code = @ - bit * d.range, !.dist = 2 * @ + bit, !.left = @ - 1]
          IN  dec' = IF next.left > 0 THEN next
                     ELSE [Tree(next, "align", AlignBits) EXCEPT !.dist = @ * 2^AlignBits]

\* The input ends within a symbol.
InputEnds ==
    /\ \/ dec.pc \in {"match", "lit", "rep", "g0", "long", "g1", "g2", "choice", "choice2", "low", "mid", "high",
                      "slot", "spec", "direct", "align", "normalize"}
       \/ dec.pc = "symbol" /\ dec.dummy
    /\ Lacks
    /\ dec' = [dec EXCEPT !.pc = IF dec.dummy THEN "error" ELSE "overrun"]
    /\ UNCHANGED <<lzma, enc, stream>>

\* TryDummy returns: the symbol is all there, and is decoded now.
DummyReturns ==
    /\ dec.pc = "symbol" /\ dec.dummy /\ ~Lacks
    /\ dec' = IF dec.checkEnd /\ dec.coder # "match" THEN [dec EXCEPT !.pc = "error"]
              ELSE [dec EXCEPT !.pc = "match", !.dummy = FALSE, !.buf = dec.saved[1], !.range = dec.saved[2],
                               !.code = dec.saved[3], !.bufLimit = dec.saved[1], !.limit = Limit2]
    /\ UNCHANGED <<lzma, enc, stream>>

-----------------------------------------------------------------------------
(* What a symbol does to the dictionary.                                     *)

\* The bytes at a distance, one after the other.
Copied(dic, rep0, n) == dic \o [i \in 1 .. n |-> dic[Len(dic) - rep0 + 1 + ((i - 1) % rep0)]]

\* The inner loop goes on with the next symbol, or DecodeReal returns.
Continue(d) == [d EXCEPT !.pc = IF Len(d.dic) < d.limit /\ d.buf < d.bufLimit THEN "match" ELSE "normalize"]

PutLiteral ==
    /\ dec.pc = "symbol" /\ ~dec.dummy /\ dec.coder = "lit"
    /\ dec' = Continue([dec EXCEPT !.dic = Append(@, dec.node - ByteBase),
                                   !.state = IF @ < 4 THEN 0 ELSE IF @ < 10 THEN @ - 3 ELSE @ - 6])
    /\ UNCHANGED <<lzma, enc, stream>>

PutShortRep ==
    /\ dec.pc = "symbol" /\ ~dec.dummy /\ dec.coder = "shortrep"
    /\ dec' = Continue([dec EXCEPT !.dic = Copied(@, dec.reps[1], 1), !.state = IF @ < 7 THEN 9 ELSE 11])
    /\ UNCHANGED <<lzma, enc, stream>>

\* No further than the limit; the rest of the match remains.
CopyMatch(d) ==
    LET len == d.len + 2
        rem == d.limit - Len(d.dic)
        cur == IF rem < len THEN rem ELSE len
    IN  IF rem = 0 THEN [d EXCEPT !.pc = "error"]
        ELSE Continue([d EXCEPT !.dic = Copied(@, d.reps[1], cur), !.remainLen = len - cur])

PutRep ==
    /\ dec.pc = "symbol" /\ ~dec.dummy /\ dec.coder = "rep"
    /\ dec' = CopyMatch([dec EXCEPT !.state = IF @ < 7 THEN 8 ELSE 11])
    /\ UNCHANGED <<lzma, enc, stream>>

TooFar == dec.dist >= (IF dec.checkDicSize = 0 THEN processedPos ELSE dec.checkDicSize)

PutMatch ==
    /\ dec.pc = "symbol" /\ ~dec.dummy /\ dec.coder = "match"
    /\ dec' = IF dec.dist = EndMark
              THEN [Normalized(dec) EXCEPT !.pc = IF Normalized(dec).code = 0 THEN "finished" ELSE "error"]
              ELSE IF TooFar THEN [dec EXCEPT !.pc = "error"]
              ELSE CopyMatch([dec EXCEPT !.reps = <<dec.dist + 1>> \o SubSeq(@, 1, 3),
                                         !.state = IF @ < 7 THEN 7 ELSE 10])
    /\ UNCHANGED <<lzma, enc, stream>>

LzmaDec_WriteRem(d) ==
    LET room == stream.size - Len(d.dic)
        len  == IF room < d.remainLen THEN room ELSE d.remainLen
    IN  [d EXCEPT !.dic = Copied(@, d.reps[1], len), !.remainLen = @ - len,
                  !.checkDicSize = IF @ = 0 /\ d.remainLen # 0 /\ stream.dict - Len(d.dic) <= len
                                   THEN stream.dict ELSE @]

\* DecodeReal returns to DecodeReal2.
EndReal ==
    /\ dec.pc = "normalize" /\ ~Lacks
    /\ \E d \in {LzmaDec_WriteRem([Normalized(dec) EXCEPT
                    !.checkDicSize = IF processedPos >= stream.dict THEN stream.dict ELSE @])} :
          dec' = IF Len(d.dic) < stream.size /\ d.buf < d.bufLimit
                 THEN [d EXCEPT !.pc = "match",
                                !.limit = IF d.checkDicSize = 0 /\ stream.dict < stream.size
                                          THEN stream.dict ELSE stream.size]
                 ELSE [d EXCEPT !.pc = "loop"]
    /\ UNCHANGED <<lzma, enc, stream>>

\* LZMADeCompress: everything read, everything written, or an exception.
ReturnData ==
    /\ dec.pc \in {"finished", "error"}
    /\ dec' = [dec EXCEPT !.pc = IF @ = "finished" /\ InSize = 0 /\ processedPos = stream.size
                                 THEN "ok" ELSE "refused"]
    /\ UNCHANGED <<lzma, enc, stream>>

-----------------------------------------------------------------------------

NoStream == [props |-> 0, dict |-> 0, size |-> 0, bytes |-> <<>>, whole |-> TRUE]

CodecInit ==
    /\ lzma \in {[data |-> c.data, pb |-> c.pb, lp |-> c.lp, lc |-> c.lc, dict |-> DictionaryFor(Len(c.data))] :
                   c \in Compressions}
    /\ enc = EncoderInit /\ stream = NoStream /\ dec = DecoderInit

CodecIdle ==
    /\ lzma = [data |-> <<>>, pb |-> 0, lp |-> 0, lc |-> 0, dict |-> 0]
    /\ enc = [EncoderInit EXCEPT !.pc = "idle"] /\ stream = NoStream /\ dec = DecoderInit

CodecDone == dec.pc \in {"ok", "refused", "overrun"} /\ UNCHANGED codecVars

CodecNext ==
    \/ FirstByte \/ CodeLiteral \/ CodeShortRep
    \/ \E len \in 2 .. LZMA_MATCH_LEN_MAX : \/ \E i \in 0 .. 3 : CodeRep(i, len)
                                            \/ \E dist \in 0 .. Len(lzma.data) - 1 : CodeMatch(dist, len)
    \/ Flush \/ BeginDecode \/ DecodeToDic
    \/ DecIsMatch \/ DecLiteral \/ DecIsRep \/ DecRepG0 \/ DecRep0Long \/ DecRepG1 \/ DecRepG2
    \/ DecChoice \/ DecChoice2 \/ DecSlot \/ DecDirect
    \/ DecLen("low", DecPosState, LenBits[1]) \/ DecLen("mid", DecPosState, LenBits[2]) \/ DecLen("high", 0, LenBits[3])
    \/ DecReverse("spec", dec.offs) \/ DecReverse("align", 0)
    \/ InputEnds \/ DummyReturns \/ PutLiteral \/ PutShortRep \/ PutRep \/ PutMatch \/ EndReal \/ ReturnData
    \/ CodecDone

-----------------------------------------------------------------------------
(* Properties.                                                               *)

\* The driver gets back what mkcromfs compressed, whichever parse the encoder
\* took and however its carries went: encoder and decoder agree on every
\* probability, distance and state, the decoder ends on the last byte with the
\* code 0, and a stream whose end is missing is refused.
LzmaRoundTrip ==
    /\ dec.pc = "ok" => stream.whole /\ dec.dic = lzma.data
    /\ dec.pc = "refused" => ~stream.whole

\* LzmaDec_DecodeReal reads without looking at the end of the input: the space
\* left, or the dummy before it, is enough for a symbol and the byte that is
\* read ahead after it.
NeverReadsBeyond == dec.pc # "overrun"

\* The decoder gives back what was encoded, refuses what was cut short, and
\* reads nothing behind its input on the way.
CodecFaithful == LzmaRoundTrip /\ NeverReadsBeyond
=============================================================================
