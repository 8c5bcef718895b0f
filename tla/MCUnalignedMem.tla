--------------------------- MODULE MCUnalignedMem ---------------------------
(***************************************************************************)
(* Two blocks of memory, so that a quad starts at every place of the first *)
(* block and reaches into the second, at aligned and odd byte addresses;   *)
(* and the partial accesses against the results memops.c lists.            *)
(***************************************************************************)
EXTENDS UnalignedMem

Row(a, b, c, d) == [j \in Lanes |-> <<a, b, c, d>>[j + 1]]
Block(m)        == <<m[0], m[1], m[2], m[3], m[4], m[5], m[6], m[7]>>

\* memops.c 260-276 and 333-334; tmpbuf's zeros are what the register held.
LoadTable(q) ==
  /\ LoadedLeft(mem, q, 0)   = Row(q[0], q[1], q[2], mem[0])
  /\ LoadedLeft(mem, q, 3)   = Row(q[0], q[1], q[2], mem[0])
  /\ LoadedLeft(mem, q, 4)   = Row(q[0], q[1], mem[0], mem[1])
  /\ LoadedLeft(mem, q, 8)   = Row(q[0], mem[0], mem[1], mem[2])
  /\ LoadedLeft(mem, q, 12)  = Row(mem[0], mem[1], mem[2], mem[3])
  /\ LoadedLeft(mem, q, 16)  = Row(q[0], q[1], q[2], mem[4])
  /\ LoadedLeft(mem, q, 24)  = Row(q[0], mem[4], mem[5], mem[6])
  /\ LoadedRight(mem, q, 0)  = Row(mem[0], mem[1], mem[2], mem[3])
  /\ LoadedRight(mem, q, 4)  = Row(mem[1], mem[2], mem[3], q[3])
  /\ LoadedRight(mem, q, 8)  = Row(mem[2], mem[3], q[2], q[3])
  /\ LoadedRight(mem, q, 12) = Row(mem[3], q[1], q[2], q[3])

\* memops.c 304-320; savebuf's zeros are what memory held.
StoreTable(q) ==
  /\ Block(StoredLeft(mem, q, 0))   = <<q[3], mem[1], mem[2], mem[3], mem[4], mem[5], mem[6], mem[7]>>
  /\ Block(StoredLeft(mem, q, 8))   = <<q[1], q[2], q[3], mem[3], mem[4], mem[5], mem[6], mem[7]>>
  /\ Block(StoredLeft(mem, q, 16))  = <<mem[0], mem[1], mem[2], mem[3], q[3], mem[5], mem[6], mem[7]>>
  /\ Block(StoredLeft(mem, q, 24))  = <<mem[0], mem[1], mem[2], mem[3], q[1], q[2], q[3], mem[7]>>
  /\ Block(StoredRight(mem, q, 0))  = <<q[0], q[1], q[2], q[3], mem[4], mem[5], mem[6], mem[7]>>
  /\ Block(StoredRight(mem, q, 4))  = <<mem[0], q[0], q[1], q[2], mem[4], mem[5], mem[6], mem[7]>>
  /\ Block(StoredRight(mem, q, 12)) = <<mem[0], mem[1], mem[2], q[0], mem[4], mem[5], mem[6], mem[7]>>

\* The four partial accesses move exactly the words the test program lists for
\* them and leave the others alone, whatever register and memory hold.
AccessesAsListed == \A r \in Quads : LoadTable(vreg[r]) /\ StoreTable(vreg[r])
=============================================================================
