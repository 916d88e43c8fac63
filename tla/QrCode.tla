------------------------------- MODULE QrCode -------------------------------
(***************************************************************************)
(* node/src/qrcode.ts: the QR code of the pairing link, drawn by the node  *)
(* itself.  One action per loop body of the encoder: the Galois field's    *)
(* tables, the Reed-Solomon division, the zig-zag of the data bits, the    *)
(* eight masks.  The properties read the finished symbol the way a scanner *)
(* does: format bits, mask, zig-zag, blocks, syndromes, bytes.             *)
(***************************************************************************)
EXTENDS Integers, Sequences, FiniteSets, SequencesExt, Bitwise

CONSTANT Lengths        \* byte lengths of the texts that are encoded

(* Per block: error-correction codewords; then number and data codewords of *)
(* the blocks of both groups.                                              *)
CAPACITY ==
  [L |-> <<<<7, 1, 19, 0, 0>>, <<10, 1, 34, 0, 0>>, <<15, 1, 55, 0, 0>>, <<20, 1, 80, 0, 0>>, <<26, 1, 108, 0, 0>>,
           <<18, 2, 68, 0, 0>>, <<20, 2, 78, 0, 0>>, <<24, 2, 97, 0, 0>>, <<30, 2, 116, 0, 0>>, <<18, 2, 68, 2, 69>>>>,
   M |-> <<<<10, 1, 16, 0, 0>>, <<16, 1, 28, 0, 0>>, <<26, 1, 44, 0, 0>>, <<18, 2, 32, 0, 0>>, <<24, 2, 43, 0, 0>>,
           <<16, 4, 27, 0, 0>>, <<18, 4, 31, 0, 0>>, <<22, 2, 38, 2, 39>>, <<22, 3, 36, 2, 37>>, <<26, 4, 43, 1, 44>>>>]
ALIGNMENT_COORDS ==
  <<{}, {6, 18}, {6, 22}, {6, 26}, {6, 30}, {6, 34}, {6, 22, 38}, {6, 24, 42}, {6, 26, 46}, {6, 28, 50}>>
REMAINDER_BITS == <<0, 7, 7, 7, 7, 7, 0, 0, 0, 0>>

Total(cap) == cap[2] * cap[3] + cap[4] * cap[5]
CountBits(v) == IF v <= 9 THEN 8 ELSE 16
requiredDataBits(v, n) == 4 + CountBits(v) + 8 * n

(* The smallest version, at the stronger level first.                      *)
selectVersionAndEcLevel(n) ==
  LET fits(l) == {v \in 1..10 : requiredDataBits(v, n) <= 8 * Total(CAPACITY[l][v])}
      first(l) == <<CHOOSE v \in fits(l) : \A w \in fits(l) : v <= w, l>>
  IN IF fits("M") # {} THEN first("M") ELSE IF fits("L") # {} THEN first("L") ELSE <<>>

pushBits(value, length) == [i \in 1..length |-> (value \div 2^(length - i)) % 2]
bitsToByte(bits, k) ==
  LET b(j) == bits[8 * (k - 1) + j]
  IN 128 * b(1) + 64 * b(2) + 32 * b(3) + 16 * b(4) + 8 * b(5) + 4 * b(6) + 2 * b(7) + b(8)
ByteBits(bytes) == [i \in 1..8 * Len(bytes) |-> (bytes[1 + ((i - 1) \div 8)] \div 2^(7 - ((i - 1) % 8))) % 2]

Lesser(a, b) == IF a < b THEN a ELSE b
(* Mode, length, bytes, up to four zeros, zeros up to a whole codeword, then *)
(* the two pad codewords in turn.                                          *)
buildDataCodewords(bytes, v, total) ==
  LET head == pushBits(4, 4) \o pushBits(Len(bytes), CountBits(v)) \o ByteBits(bytes)
      ended == head \o [i \in 1..Lesser(4, 8 * total - Len(head)) |-> 0]
      padded == ended \o [i \in 1..(8 - (Len(ended) % 8)) % 8 |-> 0]
      used == Len(padded) \div 8
  IN [k \in 1..total |-> IF k <= used THEN bitsToByte(padded, k) ELSE IF (k - used) % 2 = 1 THEN 236 ELSE 17]

Start(cap, b) == IF b <= cap[2] THEN (b - 1) * cap[3] ELSE cap[2] * cap[3] + (b - 1 - cap[2]) * cap[5]
BlockLen(cap, b) == IF b <= cap[2] THEN cap[3] ELSE cap[5]
splitIntoBlocks(codewords, cap) ==
  [b \in 1..cap[2] + cap[4] |-> SubSeq(codewords, Start(cap, b) + 1, Start(cap, b) + BlockLen(cap, b))]

(* Data then error-correction codewords, each taken from the blocks in turn. *)
Turns(blocks, n) ==
  FlattenSeq([i \in 1..n |->
    LET has == SelectSeq([b \in DOMAIN blocks |-> b], LAMBDA b : i <= Len(blocks[b]))
    IN [j \in DOMAIN has |-> blocks[has[j]][i]]])
buildCodewordBits(blocks, ecBlocks) ==
  ByteBits(Turns(blocks, Len(blocks[Len(blocks)])) \o Turns(ecBlocks, Len(ecBlocks[1])))

---------------------------------------------------------------------------
(* The fixed patterns of a symbol.                                         *)
Size(v) == 17 + 4 * v
Cells(n) == (0..n - 1) \X (0..n - 1)
Square(r, c, d) == ((r - d)..(r + d)) \X ((c - d)..(c + d))
Ring(p, r, c) == LET y == IF p[1] > r THEN p[1] - r ELSE r - p[1]
                     x == IF p[2] > c THEN p[2] - c ELSE c - p[2]
                 IN IF x > y THEN x ELSE y

FinderCentres(n) == {<<3, 3>>, <<3, n - 4>>, <<n - 4, 3>>}
placeFinderPattern(n) == UNION {Square(q[1], q[2], 4) : q \in FinderCentres(n)} \intersect Cells(n)
placeTimingPatterns(n) == {<<6, i>> : i \in 8..n - 9} \union {<<i, 6>> : i \in 8..n - 9}
isNearFinder(r, c, n) == (r <= 8 /\ c <= 8) \/ (r <= 8 /\ c >= n - 9) \/ (r >= n - 9 /\ c <= 8)
AlignmentCentres(v) == {q \in ALIGNMENT_COORDS[v] \X ALIGNMENT_COORDS[v] : ~isNearFinder(q[1], q[2], Size(v))}
drawAlignmentPattern(v) == UNION {Square(q[1], q[2], 2) : q \in AlignmentCentres(v)}
formatCopy1Coords == [i \in 1..15 |-> IF i <= 6 THEN <<8, i - 1>> ELSE IF i = 7 THEN <<8, 7>> ELSE
                                      IF i = 8 THEN <<8, 8>> ELSE IF i = 9 THEN <<7, 8>> ELSE <<15 - i, 8>>]
formatCopy2Coords(n) == [i \in 1..15 |-> IF i <= 7 THEN <<n - i, 8>> ELSE <<8, n - 16 + i>>]
reserveFormatInfoArea(n) == Range(formatCopy1Coords) \union Range(formatCopy2Coords(n))
versionInfoCoords(n) == [i \in 1..18 |-> <<(i - 1) \div 3, n - 11 + ((i - 1) % 3)>>]
reserveVersionInfoArea(v) ==
  IF v < 7 THEN {} ELSE UNION {{p, <<p[2], p[1]>>} : p \in Range(versionInfoCoords(Size(v)))}
DarkModule(v) == <<4 * v + 9, 8>>

Reserved(v) ==
  LET n == Size(v) IN
  placeFinderPattern(n) \union placeTimingPatterns(n) \union drawAlignmentPattern(v) \union {DarkModule(v)}
    \union reserveFormatInfoArea(n) \union reserveVersionInfoArea(v)

(* The alignment patterns are drawn over the timing patterns.              *)
Patterns(v) ==
  LET n == Size(v) IN
  [p \in Cells(n) |->
     LET align == {q \in AlignmentCentres(v) : p \in Square(q[1], q[2], 2)}
         finder == {q \in FinderCentres(n) : p \in Square(q[1], q[2], 4)}
     IN IF p = DarkModule(v) THEN TRUE
        ELSE IF align # {} THEN \E q \in align : Ring(p, q[1], q[2]) # 1
        ELSE IF finder # {} THEN \E q \in finder : Ring(p, q[1], q[2]) \in {0, 1, 3}
        ELSE p \in placeTimingPatterns(n) /\ (p[1] + p[2]) % 2 = 0]

(* The module two columns are written in, upwards or downwards.            *)
Zigzag(n, col, up) ==
  [k \in 1..2 * n |-> <<IF up THEN n - 1 - ((k - 1) \div 2) ELSE (k - 1) \div 2, col - ((k - 1) % 2)>>]

maskCondition(mask, r, c) ==
  CASE mask = 0 -> (r + c) % 2 = 0
    [] mask = 1 -> r % 2 = 0
    [] mask = 2 -> c % 3 = 0
    [] mask = 3 -> (r + c) % 3 = 0
    [] mask = 4 -> ((r \div 2) + (c \div 3)) % 2 = 0
    [] mask = 5 -> ((r * c) % 2) + ((r * c) % 3) = 0
    [] mask = 6 -> (((r * c) % 2) + ((r * c) % 3)) % 2 = 0
    [] mask = 7 -> (((r + c) % 2) + ((r * c) % 3)) % 2 = 0
applyMask(modules, reserved, mask) ==
  [p \in DOMAIN modules |-> IF p \notin reserved /\ maskCondition(mask, p[1], p[2]) THEN ~modules[p] ELSE modules[p]]

(* A run of n >= 5 equal modules costs n - 2: one for each five in it, two *)
(* more for the run.  At(i) is the line's i-th module.                     *)
RunPenalty(At(_), n) ==
  LET five == {i \in 0..n - 5 : \A j \in 1..4 : At(i + j) = At(i)}
  IN Cardinality(five) + 2 * Cardinality({i \in five : i = 0 \/ At(i - 1) # At(i)})
rowRunPenalty(m, r, n) == LET At(i) == m[<<r, i>>] IN RunPenalty(At, n)
colRunPenalty(m, c, n) == LET At(i) == m[<<i, c>>] IN RunPenalty(At, n)
FINDER_LIKE == {<<1, 0, 1, 1, 1, 0, 1, 0, 0, 0, 0>>, <<0, 0, 0, 0, 1, 0, 1, 1, 1, 0, 1>>}
matchesPattern(m, r, c, horizontal, pattern) ==
  \A i \in 0..10 : m[IF horizontal THEN <<r, c + i>> ELSE <<r + i, c>>] = (pattern[i + 1] = 1)
SumOver(S, f(_)) == FoldSet(LAMBDA x, acc : acc + f(x), 0, S)
computePenalty(m, n) ==
  LET rows(r) == rowRunPenalty(m, r, n) + colRunPenalty(m, r, n)
      boxes == {p \in Cells(n - 1) : \A q \in Square(p[1], p[2], 1) :
                  q[1] >= p[1] /\ q[2] >= p[2] => m[q] = m[p]}
      like(h) == {p \in (IF h THEN (0..n - 1) \X (0..n - 11) ELSE (0..n - 11) \X (0..n - 1)) :
                    \E s \in FINDER_LIKE : matchesPattern(m, p[1], p[2], h, s)}
      dark == Cardinality({p \in Cells(n) : m[p]})
      off == IF 2 * dark > n * n THEN 100 * dark - 50 * n * n ELSE 50 * n * n - 100 * dark
  IN SumOver(0..n - 1, rows) + 3 * Cardinality(boxes) + 40 * (Cardinality(like(TRUE)) + Cardinality(like(FALSE)))
       + 10 * (off \div (5 * n * n))

(* Division by a binary generator polynomial, from the highest bit down.   *)
RECURSIVE bchRemainder(_, _, _, _)
bchRemainder(v, generator, degree, bit) ==
  IF bit < degree THEN v
  ELSE bchRemainder(IF (v \div 2^bit) % 2 = 1 THEN v ^^ (generator * 2^(bit - degree)) ELSE v,
                    generator, degree, bit - 1)
EC_LEVEL_BITS == [L |-> 1, M |-> 0]
formatInfoBits(level, mask) ==
  LET data == (EC_LEVEL_BITS[level] * 8 + mask) * 1024 IN (data + bchRemainder(data, 1335, 10, 14)) ^^ 21522
versionInfoBits(v) == v * 4096 + bchRemainder(v * 4096, 7973, 12, 17)

placeFormatInfo(m, bits, n) ==
  [p \in DOMAIN m |->
     LET at == {i \in 1..15 : p \in {formatCopy1Coords[i], formatCopy2Coords(n)[i]}}
     IN IF at = {} THEN m[p] ELSE \E i \in at : (bits \div 2^(15 - i)) % 2 = 1]
placeVersionInfo(m, bits, n) ==
  [p \in DOMAIN m |->
     LET at == {i \in 1..18 : versionInfoCoords(n)[i] \in {p, <<p[2], p[1]>>}}
     IN IF at = {} THEN m[p] ELSE \E i \in at : (bits \div 2^(i - 1)) % 2 = 1]

---------------------------------------------------------------------------
VARIABLES stage,             \* field, ready, gen, rs, columns, masks, score, done, refused
          exp, log,          \* GF_EXP, GF_LOG
          bytes, version, level, generator,
          blocks, ecBlocks, buffer, at,
          bits, modules, reserved, bitIndex, col, up,
          mask, masked, best
code == <<bytes, version, level, generator, blocks, ecBlocks, buffer, at, bits>>
draw == <<modules, reserved, bitIndex, col, up, mask, masked, best>>
vars == <<stage, exp, log, code, draw>>

none == <<>>
Init ==
  /\ stage = "field" /\ exp = <<1>> /\ log = [x \in 1..255 |-> 0]
  /\ bytes = none /\ version = 0 /\ level = "M" /\ generator = <<1>> /\ blocks = none /\ ecBlocks = none
  /\ buffer = none /\ at = 0 /\ bits = none
  /\ modules = none /\ reserved = {} /\ bitIndex = 0 /\ col = 0 /\ up = TRUE
  /\ mask = 0 /\ masked = none /\ best = none

(* initGaloisField: powers of two modulo x^8 + x^4 + x^3 + x^2 + 1.        *)
initGaloisField ==
  /\ stage = "field"
  /\ log' = [log EXCEPT ![exp[Len(exp)]] = Len(exp) - 1]
  /\ IF Len(exp) < 255
     THEN /\ exp' = Append(exp, LET x == 2 * exp[Len(exp)] IN IF x >= 256 THEN x ^^ 285 ELSE x)
          /\ UNCHANGED stage
     ELSE stage' = "ready" /\ UNCHANGED exp
  /\ UNCHANGED <<code, draw>>

gfMul(a, b) == IF a = 0 \/ b = 0 THEN 0 ELSE exp[1 + ((log[a] + log[b]) % 255)]
polyMul(a, i) ==  \* by x + 2^i
  [k \in 1..Len(a) + 1 |-> (IF k <= Len(a) THEN a[k] ELSE 0) ^^ (IF k > 1 THEN gfMul(a[k - 1], exp[1 + i]) ELSE 0)]

(* encodeQr: a text of n bytes; none of the sizes may hold it.             *)
Sample(n) == [i \in 1..n |-> (37 * i + n) % 256]
encodeQr(n) ==
  /\ stage = "ready" /\ bytes' = Sample(n)
  /\ IF selectVersionAndEcLevel(n) = <<>>
     THEN stage' = "refused" /\ UNCHANGED <<version, level, blocks>>
     ELSE /\ stage' = "gen"
          /\ version' = selectVersionAndEcLevel(n)[1]
          /\ level' = selectVersionAndEcLevel(n)[2]
          /\ LET cap == CAPACITY[level'][version'] IN
             blocks' = splitIntoBlocks(buildDataCodewords(Sample(n), version', Total(cap)), cap)
  /\ UNCHANGED <<exp, log, generator, ecBlocks, buffer, at, bits, draw>>

EcLength == CAPACITY[level][version][1]
Zeros(n) == [i \in 1..n |-> 0]

rsGeneratorPolyFromOne ==
  /\ stage = "gen" /\ generator' = polyMul(generator, Len(generator))
  /\ IF Len(generator) = EcLength
     THEN stage' = "rs" /\ buffer' = blocks[1] \o Zeros(EcLength) /\ at' = 1
     ELSE UNCHANGED <<stage, buffer, at>>
  /\ UNCHANGED <<exp, log, bytes, version, level, blocks, ecBlocks, bits, draw>>

rsGeneratorPoly ==
  /\ stage = "gen" /\ generator' = polyMul(generator, Len(generator) - 1)
  /\ IF Len(generator) = EcLength
     THEN stage' = "rs" /\ buffer' = blocks[1] \o Zeros(EcLength) /\ at' = 1
     ELSE UNCHANGED <<stage, buffer, at>>
  /\ UNCHANGED <<exp, log, bytes, version, level, blocks, ecBlocks, bits, draw>>

(* One codeword of a block is divided out.                                 *)
rsEncode ==
  /\ stage = "rs" /\ at <= Len(blocks[Len(ecBlocks) + 1])
  /\ buffer' = [k \in DOMAIN buffer |->
                  IF k - at \in 0..EcLength THEN buffer[k] ^^ gfMul(generator[k - at + 1], buffer[at]) ELSE buffer[k]]
  /\ at' = at + 1
  /\ UNCHANGED <<stage, exp, log, bytes, version, level, generator, blocks, ecBlocks, bits, draw>>

(* The block's remainder is its error correction; after the last block the *)
(* bits are laid out and the fixed patterns drawn.                         *)
NextBlock ==
  LET data == blocks[Len(ecBlocks) + 1] IN
  /\ stage = "rs" /\ at > Len(data)
  /\ ecBlocks' = Append(ecBlocks, SubSeq(buffer, Len(data) + 1, Len(buffer)))
  /\ IF Len(ecBlocks') < Len(blocks)
     THEN /\ buffer' = blocks[Len(ecBlocks') + 1] \o Zeros(EcLength) /\ at' = 1
          /\ UNCHANGED <<stage, bits, draw>>
     ELSE /\ stage' = "columns" /\ bits' = buildCodewordBits(blocks, ecBlocks')
          /\ modules' = Patterns(version) /\ reserved' = Reserved(version)
          /\ bitIndex' = 0 /\ col' = Size(version) - 1 /\ up' = TRUE
          /\ UNCHANGED <<buffer, at, mask, masked, best>>
  /\ UNCHANGED <<exp, log, bytes, version, level, generator, blocks>>

placeDataBitsThrough ==
  LET c == col
      free == SelectSeq(Zigzag(Size(version), c, up), LAMBDA p : p \notin reserved) IN
  /\ stage = "columns" /\ col > 0
  /\ modules' = [p \in DOMAIN modules |->
       IF p[2] \in {c, c - 1} /\ p \notin reserved
       THEN LET i == bitIndex + (CHOOSE k \in DOMAIN free : free[k] = p) IN i <= Len(bits) /\ bits[i] = 1
       ELSE modules[p]]
  /\ bitIndex' = bitIndex + Len(free) /\ up' = ~up /\ col' = c - 2
  /\ UNCHANGED <<stage, exp, log, code, reserved, mask, masked, best>>

(* Two columns of the zig-zag; the vertical timing column is stepped over. *)
placeDataBits ==
  LET c == IF col = 6 THEN 5 ELSE col
      free == SelectSeq(Zigzag(Size(version), c, up), LAMBDA p : p \notin reserved) IN
  /\ stage = "columns" /\ col > 0
  /\ modules' = [p \in DOMAIN modules |->
       IF p[2] \in {c, c - 1} /\ p \notin reserved
       THEN LET i == bitIndex + (CHOOSE k \in DOMAIN free : free[k] = p) IN i <= Len(bits) /\ bits[i] = 1
       ELSE modules[p]]
  /\ bitIndex' = bitIndex + Len(free) /\ up' = ~up /\ col' = c - 2
  /\ UNCHANGED <<stage, exp, log, code, reserved, mask, masked, best>>

tryMask ==
  /\ \/ stage = "columns" /\ col <= 0
     \/ stage = "masks" /\ mask < 8
  /\ stage' = "score" /\ masked' = applyMask(modules, reserved, mask)
  /\ UNCHANGED <<exp, log, code, modules, reserved, bitIndex, col, up, mask, best>>

keepBest ==
  LET penalty == computePenalty(masked, Size(version)) IN
  /\ stage = "score" /\ stage' = "masks" /\ mask' = mask + 1
  /\ best' = IF best = none \/ penalty < best[1] THEN <<penalty, mask, masked>> ELSE best
  /\ UNCHANGED <<exp, log, code, modules, reserved, bitIndex, col, up, masked>>

finish ==
  LET n == Size(version)
      named == placeFormatInfo(best[3], formatInfoBits(level, best[2]), n) IN
  /\ stage = "masks" /\ mask = 8 /\ stage' = "done"
  /\ modules' = IF version >= 7 THEN placeVersionInfo(named, versionInfoBits(version), n) ELSE named
  /\ UNCHANGED <<exp, log, code, reserved, bitIndex, col, up, mask, masked, best>>

Next ==
  \/ initGaloisField \/ rsGeneratorPoly \/ rsEncode \/ NextBlock
  \/ placeDataBits \/ tryMask \/ keepBest \/ finish
  \/ \E n \in Lengths : encodeQr(n)
Spec == Init /\ [][Next]_vars

---------------------------------------------------------------------------
(* A scanner: the format bits say level and mask, the zig-zag over what is *)
(* not a fixed pattern gives the codewords, the capacity table the blocks. *)
Dark(p) == IF modules[p] THEN 1 ELSE 0
ReadFormat(coords) == [i \in 1..5 |-> (Dark(coords[i]) + <<1, 0, 1, 0, 1>>[i]) % 2]
ReadMask(f) == 4 * f[3] + 2 * f[4] + f[5]
ColumnPairs(n) == [k \in 1..(n - 1) \div 2 |-> IF n + 1 - 2 * k > 6 THEN n + 1 - 2 * k ELSE n - 2 * k]
ReadOrder(v) ==
  SelectSeq(FlattenSeq([k \in 1..(Size(v) - 1) \div 2 |-> Zigzag(Size(v), ColumnPairs(Size(v))[k], k % 2 = 1)]),
            LAMBDA p : p \notin Reserved(v))
Read(order, m) ==
  [i \in DOMAIN order |-> IF modules[order[i]] # maskCondition(m, order[i][1], order[i][2]) THEN 1 ELSE 0]
(* Where the i-th data codeword of block b is.                             *)
Place(cap, b, i) ==
  LET all == cap[2] + cap[4] IN IF i <= cap[3] THEN (i - 1) * all + b ELSE cap[3] * all + b - cap[2]
ReadBlock(words, cap, b) == [i \in 1..BlockLen(cap, b) |-> words[Place(cap, b, i)]]
ReadEc(words, cap, b) == [i \in 1..cap[1] |-> words[Total(cap) + (i - 1) * (cap[2] + cap[4]) + b]]
ReadWords(v) ==
  UNION {{[k \in 1..Len(read) \div 8 |-> bitsToByte(read, k)] :
            read \in {Read(order, ReadMask(ReadFormat(formatCopy1Coords)))}} : order \in {ReadOrder(v)}}

(* A finished symbol gives its text back to a scanner: both copies of the  *)
(* format bits name the level and the mask used, no fixed pattern, format  *)
(* or version bit was written over data or data over them, the zig-zag has *)
(* exactly the symbol's bits, and the blocks read out in turn are the text *)
(* with its length (encodeQr, at every capacity boundary).                 *)
ScansBack ==
  stage = "done" =>
    LET cap == CAPACITY[level][version]
        all == cap[2] + cap[4] IN
    /\ ReadFormat(formatCopy1Coords) = ReadFormat(formatCopy2Coords(Size(version)))
    /\ ReadFormat(formatCopy1Coords)[1] = 0 /\ ReadFormat(formatCopy1Coords)[2] = EC_LEVEL_BITS[level]
    /\ bitIndex = 8 * (Total(cap) + all * cap[1]) + REMAINDER_BITS[version]
    /\ \A words \in ReadWords(version) :
       \A data \in {ByteBits(FlattenSeq([b \in 1..all |-> ReadBlock(words, cap, b)]))} :
         /\ SubSeq(data, 1, 4 + CountBits(version)) = pushBits(4, 4) \o pushBits(Len(bytes), CountBits(version))
         /\ SubSeq(data, 5 + CountBits(version), 4 + CountBits(version) + 8 * Len(bytes)) = ByteBits(bytes)

(* Every block read from the symbol is a codeword of the Reed-Solomon code: *)
(* as a polynomial it vanishes at the first powers of two, so a scanner can *)
(* mend a smudge (rsEncode, rsGeneratorPoly).                              *)
Correctable ==
  stage = "done" =>
    LET cap == CAPACITY[level][version] IN
    \A words \in ReadWords(version) : \A b \in 1..cap[2] + cap[4] :
      \A word \in {ReadBlock(words, cap, b) \o ReadEc(words, cap, b)} : \A root \in 0..cap[1] - 1 :
        \A terms \in {[k \in DOMAIN word |-> gfMul(word[k], exp[1 + ((root * (Len(word) - k)) % 255)])]} :
          \A bit \in 0..7 : Cardinality({k \in DOMAIN terms : (terms[k] \div 2^bit) % 2 = 1}) % 2 = 0
=============================================================================
