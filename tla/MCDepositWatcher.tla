--------------------------- MODULE MCDepositWatcher ---------------------------
(* DepositWatcher for TLC: small sets of chains that share their prefixes.   *)
EXTENDS DepositWatcher

CONSTANTS i1, i2, d1, d2, m1

Blk(hash, pays) == [hash |-> hash, pays |-> pays]

\* The prefixes of c of n blocks or more.
From(n, c) == {SubSeq(c, 1, k) : k \in n..Len(c)}

A == <<Blk("a1", {}), Blk("a2", {d1}), Blk("a3", {d2}), Blk("a4", {}), Blk("a5", {})>>
B == <<A[1], Blk("b2", {}), Blk("b3", {d1}), Blk("b4", {}), Blk("b5", {d2}), Blk("b6", {})>>
C == <<A[1], B[2], Blk("c3", {d2}), Blk("c4", {}), Blk("c5", {}), Blk("c6", {}),
       Blk("c7", {}), Blk("c8", {})>>

\* One chain that only grows, paying m1 last.
Growing == From(2, SubSeq(A, 1, 2) \o <<Blk("g3", {}), Blk("g4", {}), Blk("g5", {d2}), Blk("g6", {m1})>>)

\* A gives way to the longer B, where both payments move, and B to the longer C,
\* where d1 is gone and d2 moves again; none comes back.
Replaced == From(2, SubSeq(A, 1, 3)) \cup From(4, SubSeq(B, 1, 5)) \cup From(6, C)

\* B gives way again to A, which has grown in the meantime.
Returning == From(2, SubSeq(A, 1, 3)) \cup {SubSeq(B, 1, 4)} \cup {A}

\* The end of A is replaced, and neither payment in it is mined again.
Dropped == From(2, SubSeq(A, 1, 3))
             \cup From(4, <<A[1], B[2], Blk("e3", {}), B[4], Blk("e5", {}), Blk("e6", {})>>)

\* A payment without an attributable sender, and a reorganisation above it.
ManualReplaced == From(2, <<A[1], Blk("f2", {m1}), Blk("f3", {})>>)
                    \cup From(4, <<A[1], Blk("f2", {m1}), Blk("g3", {}), Blk("g4", {})>>)

MCBlocks == [height: 0..8, hash: Hashes \cup {"admin"}]
\* The inputs: d1 and d2 come from i1 and a plain address, one input without an
\* address the node would name; m1 mixes two identities.
In(kind, addresses) == [kind |-> kind, addresses |-> addresses]

MCVins == [o \in Outputs |->
             CASE o = d1 -> {In("address", {"iOne"}), In("source", {"iOne", "Rplain"})}
               [] o = d2 -> {In("source", {"iOne"}), In("addresses", {"Rplain"})}
               [] OTHER  -> {In("addresses", {"iOne"}), In("source", {"iTwo"})}]
MCAddresses == {"iOne", "iTwo"}
MCAccountOf == [a \in MCAddresses |-> IF a = "iOne" THEN i1 ELSE i2]
MCValue == [o \in Outputs |-> 1]
=============================================================================
