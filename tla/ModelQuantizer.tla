---------------------------- MODULE ModelQuantizer ----------------------------
(***************************************************************************)
(* labs/model-quantizer: tensors of weights become small integers with a   *)
(* scale for each tensor (int8), for each group of weights (q4), or layer  *)
(* by layer as a name says (mixed); a quantized model is written to a file *)
(* that a crash can cut short, read and dequantized.  A weight is an       *)
(* integer and a scale stands for peak / max, so that q * peak / max is    *)
(* the weight that comes back.  A name is a layer with how many times it   *)
(* ends in ".scale".                                                       *)
(***************************************************************************)
EXTENDS Integers, Sequences, SequencesExt, FiniteSetsExt

CONSTANTS QzModels,               \* functions from names to sequences of weights
          QzEmbeddings, QzNorms,  \* the layers whose names say they are
          QzGroupSizes,
          QzMetaLengths           \* bound: lengths of the metadata, in bytes

ASSUME QzAssumption == QzGroupSizes \subseteq Nat \ {0} /\ QzMetaLengths \subseteq Nat

VARIABLES qzModel, qzQuantized, qzDisk, qzLoaded

qzVars == <<qzModel, qzQuantized, qzDisk, qzLoaded>>

QzNone == [kind |-> "none"]

QzInit == /\ qzModel \in QzModels
          /\ qzQuantized = QzNone /\ qzDisk = QzNone /\ qzLoaded = QzNone

-----------------------------------------------------------------------------
QzAbs(x) == IF x < 0 THEN -x ELSE x
\* np.round: halves go to the even side.
QzRound(p, q) ==
    LET floor == p \div q
        twice == 2 * (p % q)
    IN  IF twice < q \/ (twice = q /\ floor % 2 = 0) THEN floor ELSE floor + 1
QzClip(x, max) == Max({-max - 1, Min({max, x})})
QzPeak(ws) == LET peak == Max({0} \cup {QzAbs(w) : w \in ToSet(ws)})
              IN  IF peak = 0 THEN 1 ELSE peak
QzInts(ws, peak, max) == [i \in DOMAIN ws |-> QzClip(QzRound(max * ws[i], peak), max)]

\* quantize_symmetric_int8 of what is not empty; np.max raises for what is.
QzInt8(ws) == [scheme |-> "int8", length |-> Len(ws), data |-> QzInts(ws, QzPeak(ws), 127),
               scales |-> <<QzPeak(ws)>>]
QzFp32(ws) == [scheme |-> "fp32", length |-> Len(ws), data |-> ws, scales |-> <<>>]

QzPack(ints) == [i \in 1..Len(ints) \div 2 |-> (16 * (ints[2 * i - 1] % 16)) + (ints[2 * i] % 16)]
\* Mutant: no sign is given back to a nibble.
QzUnpackMutant(bytes) ==
    [i \in 1..2 * Len(bytes) |->
        LET byte == bytes[(i + 1) \div 2] IN IF i % 2 = 1 THEN byte \div 16 ELSE byte % 16]
QzUnpack(bytes) ==
    [i \in 1..2 * Len(bytes) |->
        LET byte == bytes[(i + 1) \div 2]
            nibble == IF i % 2 = 1 THEN byte \div 16 ELSE byte % 16
        IN  IF nibble >= 8 THEN nibble - 16 ELSE nibble]

QzZeros(n) == [i \in 1..n |-> 0]
QzGroup(ws, g, k) == SubSeq(ws, (k - 1) * g + 1, k * g)

\* quantize_q4_grouped
QzQ4(ws, g) ==
    LET padded == ws \o QzZeros((-Len(ws)) % g)
        groups == Len(padded) \div g
        peak == [k \in 1..groups |-> QzPeak(QzGroup(padded, g, k))]
        ints == FlattenSeq([k \in 1..groups |-> QzInts(QzGroup(padded, g, k), peak[k], 7)])
    IN  [scheme |-> "q4", length |-> Len(ws), scales |-> peak,
         data |-> QzPack(IF Len(ints) % 2 = 0 THEN ints ELSE Append(ints, 0))]

QzInt8Model == [n \in DOMAIN qzModel |-> QzInt8(qzModel[n])]
\* quantize_model_q4 pads a tensor shorter than a group, an empty one too.
QzQ4Model(g) ==
    [n \in DOMAIN qzModel |->
        LET ws == qzModel[n]
        IN  [QzQ4(ws \o QzZeros(Max({0, g - Len(ws)})), g) EXCEPT !.length = Len(ws)]]

\* q4_k_m_style, and mixed_precision_quantize with it (in groups of 32 always).
QzLayerScheme(layer) ==
    IF layer \in QzEmbeddings THEN "int8" ELSE IF layer \in QzNorms THEN "fp32" ELSE "q4"
QzMixedModel(g) ==
    [n \in DOMAIN qzModel |->
        CASE QzLayerScheme(n[1]) = "int8" -> QzInt8(qzModel[n])
          [] QzLayerScheme(n[1]) = "fp32" -> QzFp32(qzModel[n])
          [] QzLayerScheme(n[1]) = "q4"   -> QzQ4(qzModel[n], g)]

\* An empty tensor that is to become int8.
QzRaises(kind) ==
    \E n \in DOMAIN qzModel :
        /\ qzModel[n] = <<>>
        /\ kind = "int8" \/ (kind = "mixed" /\ QzLayerScheme(n[1]) = "int8")

QzQuantize(g) ==
    /\ qzQuantized = QzNone
    /\ \E kind \in {"int8", "q4", "mixed"} :
          qzQuantized' = IF QzRaises(kind) THEN [kind |-> "raised"]
                         ELSE [kind |-> kind, group |-> g,
                               layers |-> CASE kind = "int8"  -> QzInt8Model
                                            [] kind = "q4"    -> QzQ4Model(g)
                                            [] kind = "mixed" -> QzMixedModel(g)]
    /\ UNCHANGED <<qzModel, qzDisk, qzLoaded>>

-----------------------------------------------------------------------------
\* write_quantized_gguf: the weights, then the scales, one name after the other
\* in one dictionary: the scales of a layer replace a tensor of their name.
QzTensors(q) ==
    LET names == SetToSeq(DOMAIN q.layers)
        scale(n) == <<n[1], n[2] + 1>>
        weights == [i \in DOMAIN names |-> <<names[i], q.layers[names[i]].data>>]
        scales == [i \in DOMAIN names |-> <<scale(names[i]), q.layers[names[i]].scales>>]
        replaced == [i \in DOMAIN weights |->
                        IF \E n \in DOMAIN q.layers : scale(n) = names[i]
                        THEN CHOOSE e \in ToSet(scales) : e[1] = names[i] ELSE weights[i]]
    IN  replaced \o SelectSeq(scales, LAMBDA e : e[1] \notin DOMAIN q.layers)

\* Mutant: 32 bytes of padding where none is needed.
QzPadMutant(pos) == 32 - (pos % 32)
QzPad(pos) == (32 - (pos % 32)) % 32

QzHeadSize == 4 + 4 + 2 + 4 + 8       \* bound: every name has four bytes, one dimension
\* write_gguf_lite: the fields with the bytes they take.
QzLayout(q, metaLength) ==
    LET tensors == QzTensors(q)
        pad == (32 - ((16 + metaLength) % 32)) % 32
    IN  <<[kind |-> "header", size |-> 16, value |-> <<Len(tensors), metaLength>>],
          [kind |-> "meta", size |-> metaLength, value |-> [group |-> q.group, scheme |-> q.kind,
                                           length |-> [n \in DOMAIN q.layers |-> q.layers[n].length]]],
          [kind |-> "pad", size |-> pad, value |-> <<>>]>>
        \o FlattenSeq([i \in DOMAIN tensors |->
               <<[kind |-> "head", size |-> QzHeadSize, value |-> <<tensors[i][1], Len(tensors[i][2])>>],
                 [kind |-> "data", size |-> Len(tensors[i][2]), value |-> tensors[i][2]]>>])

QzEndOf(fields, k) == FoldSeq(LAMBDA f, s : s + f.size, 0, SubSeq(fields, 1, k))

\* Writing: to the end, or the process dies with some of the bytes on disk.
QzWrite(metaLength) ==
    /\ qzQuantized.kind \in {"int8", "q4"} /\ qzDisk = QzNone
    /\ LET fields == QzLayout(qzQuantized, metaLength)
           total == QzEndOf(fields, Len(fields))
       IN  \E written \in 0..total :
              qzDisk' = [kind |-> "file", fields |-> fields, total |-> total, written |-> written]
    /\ UNCHANGED <<qzModel, qzQuantized, qzLoaded>>

\* The field at a position, if it is there whole; else an error (EOFError past the
\* end, and whatever comes of reading what is not a field).
QzAt(disk, pos, size) ==
    {disk.fields[k].value : k \in {k \in DOMAIN disk.fields :
        /\ pos + size <= disk.written
        /\ QzEndOf(disk.fields, k - 1) = pos /\ disk.fields[k].size = size
        /\ disk.fields[k].kind # "pad"}}

QzFailed == [kind |-> "failed"]
\* The tensors from a position on, the header having told how many.
QzParseTensors(disk, count, start) ==
    LET read[k \in Nat, pos \in Nat] ==
            IF k = 0 THEN {<<>>}
            ELSE UNION {UNION {
                    {<<[name |-> head[1], data |-> data]>> \o rest :
                        rest \in read[k - 1, pos + QzHeadSize + head[2]]} :
                    data \in QzAt(disk, pos + QzHeadSize, head[2])} :
                 head \in QzAt(disk, pos, QzHeadSize)}
    IN  read[count, start]

\* read_gguf_lite, and read_quantized_gguf: what ends in ".scale" is a scale.
QzParse(disk) ==
    LET whole == UNION {UNION {
            {[kind |-> meta.scheme, group |-> meta.group, length |-> meta.length,
              weights |-> {t \in ToSet(tensors) : t.name[2] = 0},
              scales |-> {[t EXCEPT !.name = <<t.name[1], t.name[2] - 1>>] :
                             t \in {u \in ToSet(tensors) : u.name[2] > 0}}] :
                tensors \in LET end == 16 + header[2]
                            IN  QzParseTensors(disk, header[1], end + QzPad(end))} :
            meta \in QzAt(disk, 16, header[2])} :
        header \in QzAt(disk, 0, 16)}
    IN  IF whole = {} THEN QzFailed ELSE CHOOSE model \in whole : TRUE

QzRead == /\ qzDisk # QzNone /\ qzLoaded = QzNone
          /\ qzLoaded' = QzParse(qzDisk)
          /\ UNCHANGED <<qzModel, qzQuantized, qzDisk>>

QzNext == \/ \E g \in QzGroupSizes : QzQuantize(g)
          \/ \E n \in QzMetaLengths : QzWrite(n)
          \/ QzRead

-----------------------------------------------------------------------------
\* dequantize: the integers with the peaks they are to be multiplied by.
QzDequantize(scheme, g, length, data, scales) ==
    IF scheme = "q4"
    THEN LET ints == SubSeq(QzUnpack(data), 1, Len(scales) * g)
         IN  [i \in 1..length |-> [q |-> ints[i], peak |-> scales[(i - 1) \div g + 1], max |-> 7]]
    ELSE [i \in DOMAIN data |-> [q |-> data[i], peak |-> scales[1], max |-> 127]]

QzClose(ws, back) ==
    /\ DOMAIN ws = DOMAIN back
    /\ \A i \in DOMAIN ws :
          LET b == back[i]
          IN  /\ 2 * QzAbs(b.max * ws[i] - b.q * b.peak) <= b.peak
              /\ QzAbs(ws[i]) = b.peak => b.q * b.peak = b.max * ws[i]

QzTypeOK == /\ qzModel \in QzModels
            /\ qzQuantized.kind \in {"none", "raised", "int8", "q4", "mixed"}
            /\ qzDisk # QzNone => qzDisk.written \in 0..qzDisk.total

\* "a quantization error of at most scale/2": every weight comes back within
\* half a step of the scale of its tensor or its group, and the largest of a
\* group exactly, in the shape it had, whatever could be quantized at all.
QzHalfStep ==
    qzQuantized.kind \notin {"none", "raised"} =>
        \A n \in DOMAIN qzModel :
            LET l == qzQuantized.layers[n]
            IN  IF l.scheme = "fp32" THEN l.data = qzModel[n]
                ELSE QzClose(qzModel[n], QzDequantize(l.scheme, qzQuantized.group, l.length,
                                                      l.data, l.scales))

\* What is read from a file is the model that was written and dequantizes as
\* well, but for the layers whose names end as those of scales do, which do not
\* disturb the others; a file cut short is never read as a model, a whole one is.
QzFileWhole ==
    qzLoaded # QzNone =>
        /\ (qzLoaded = QzFailed) <=> qzDisk.written < qzDisk.total
        /\ qzLoaded # QzFailed =>
              /\ {w.name : w \in qzLoaded.weights} = {n \in DOMAIN qzModel : n[2] = 0}
              /\ \A w \in qzLoaded.weights : \E s \in qzLoaded.scales :
                    /\ s.name = w.name
                    /\ QzClose(qzModel[w.name],
                               QzDequantize(qzLoaded.kind, qzLoaded.group,
                                            qzLoaded.length[w.name], w.data, s.data))

QzFaithful == QzHalfStep /\ QzFileWhole
=============================================================================
