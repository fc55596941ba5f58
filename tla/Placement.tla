----------------------------- MODULE Placement -----------------------------
(***************************************************************************)
(* The sizes SizeResolver counts for items, and what it leaves behind: a   *)
(* section whose labels stand at the sums of the sizes before them.        *)
(***************************************************************************)
EXTENDS InstructionEncoder

estimateDataValues(d, unitSize) ==
  unitSize * (d.nums + d.chars) * (IF d.count > 1 THEN d.count ELSE 1)

AlignPadding(align, at) ==
  IF align <= 1 THEN 0 ELSE (align - (at % align)) % align

estimateDataSize(d, at) ==
  CASE d.dir = "ALIGN"          -> AlignPadding(d.count, at)
    [] d.dir \in ReserveKind    -> UnitSize[d.dir] * d.count
    [] d.dir \in DefineKind     -> estimateDataValues(d, UnitSize[d.dir])

\* What an item contributes to the offset when nothing fails.
ItemSize(it, at, symbols) ==
  CASE it.kind = "INSTR" -> EncodedLength(it, symbols)
    [] it.kind = "DATA"  -> estimateDataSize(it, at)
    [] it.kind = "LABEL" -> 0

\* Item i stands where its label says, and the next one follows after the size
\* the item has under the symbol table. place[i] is the offset of item i.
ItemPlaced(place, i, section, symbols) ==
  LET it == section.items[i]
      n  == LabelOf(it)
  IN  /\ place[i + 1] = Wrap(place[i] + ItemSize(it, place[i], symbols))
      /\ n \in DOMAIN symbols => symbols[n].offset = place[i]

IsPlaced(place, section, symbols) ==
  /\ place[1] = 0
  /\ \A i \in DOMAIN section.items : ItemPlaced(place, i, section, symbols)
  /\ section.size = place[Len(section.items) + 1]

=============================================================================
