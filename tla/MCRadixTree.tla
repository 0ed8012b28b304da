---- MODULE MCRadixTree ----
(* Two-bit nibbles and two-byte coordinates: a tree of eight levels over    *)
(* -128..127, with coordinates that share long paths and negative ones.     *)
EXTENDS RadixTree

MCCoords == {<<0, -1>>, <<-1, 0>>, <<-1, 1>>}
MCPayloads == {<<>>, <<1, 0>>}
MCSnapshots == [MCCoords -> MCPayloads \union {NoChunk}]
MCChangeSets == [MCCoords -> MCPayloads \union {NoChunk, Keep}]
MCMessage == <<7>>
====
