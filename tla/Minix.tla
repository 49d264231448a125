------------------------------- MODULE Minix -------------------------------
(***************************************************************************)
(* Reading from a MINIX disk: fs/minix/block.c, read.c, the search of      *)
(* minix_lookup and fs/block_dev.c.  Every read of a block sleeps, so a    *)
(* turn of a loop is a step.  The byte at disk address a is a itself, so   *)
(* that a reader that gets the wrong byte gets a different one.            *)
(***************************************************************************)
EXTENDS Integers, Sequences, FiniteSets, FiniteSetsExt

CONSTANTS Direct,     \* zones named in the inode, 7
          Per,        \* zones named in an index block, 512
          MINIX_BLOCK_SIZE,
          Ratio,      \* BLOCK_SIZE / MINIX_BLOCK_SIZE
          Files,      \* files on disk
          Positions, Counts, \* what is read of them
          DENTRIES_PER_BLOCK, Directories,
          Names       \* of entries, and looked for

VARIABLES file,       \* the inode, its index blocks (ptr), the blocks that
                      \* cannot be read (bad) and the zones in order, or the
                      \* entries of a directory
          call        \* the local variables of the call under way
minix_vars == <<file, call>>

BLOCK_SIZE == Ratio * MINIX_BLOCK_SIZE
HOLE == -1   \* a byte that is no byte of the disk: zero
BEYOND == -2 \* a byte of the memory behind the page of a block
EIO  == -5
BUG  == -100 \* nothing is returned: a BUG_ON has stopped the kernel
MaxBlocks == Direct + Per + Per * Per

\* What mkfs leaves on the disk.  The zones of a file, in order, are those of
\* the inode, those of the index block zone[Direct], and those of the index
\* blocks of zone[Direct + 1]; a zone 0 stands for a zone, or an index block
\* full of zones, that the file does not have.
Entry(f, z, i) == IF z = 0 THEN 0 ELSE f.ptr[z][i]
Layout(f) ==
  /\ f.zones \in Seq(Nat) /\ Len(f.zones) <= MaxBlocks
  /\ f.zone \in [0..(Direct + 1) -> Nat]
  /\ DOMAIN f.ptr \subseteq Nat /\ \A z \in DOMAIN f.ptr : f.ptr[z] \in [0..(Per - 1) -> Nat]
  /\ {f.zone[Direct], f.zone[Direct + 1]} \subseteq {0} \cup DOMAIN f.ptr
  /\ \A i \in 0..(Per - 1) : Entry(f, f.zone[Direct + 1], i) \in {0} \cup DOMAIN f.ptr
  /\ \A b \in 0..(Direct - 1) : b < Len(f.zones) => f.zones[b + 1] = f.zone[b]
  /\ \A j \in 0..(Per - 1) :
       Direct + j < Len(f.zones) => f.zones[Direct + j + 1] = Entry(f, f.zone[Direct], j)
  /\ \A i, j \in 0..(Per - 1) :
       LET b == Direct + Per + i * Per + j
       IN b < Len(f.zones) => f.zones[b + 1] = Entry(f, Entry(f, f.zone[Direct + 1], i), j)
  /\ f.size \in Nat /\ f.size <= Len(f.zones) * MINIX_BLOCK_SIZE
  /\ f.bad \subseteq Nat
ASSUME MinixAssumption ==
  /\ {Direct, Per, MINIX_BLOCK_SIZE, Ratio, DENTRIES_PER_BLOCK} \subseteq Nat \ {0}
  /\ Positions \subseteq Nat /\ Counts \subseteq Nat
  /\ \A f \in Files : Layout(f)
  /\ \A f \in Directories : f.entries \in Seq([inr : Nat, name : Names])
-----------------------------------------------------------------------------
(* block.c *)

bread(block) == block \notin file.bad
\* The disk address of the block's data, or -1.
get_minix_block(nr) ==
  LET block == nr \div Ratio
      offset == (nr % Ratio) * MINIX_BLOCK_SIZE
  IN IF bread(block) THEN block * BLOCK_SIZE + offset ELSE -1

\* An index block that cannot be read looks like a hole.
Zone(index, i) ==
  IF index = 0 \/ get_minix_block(index) = -1 THEN 0 ELSE file.ptr[index][i]
\* Mutant: the two levels of index blocks are taken in the wrong order.
bmap_swapped(block) ==
  LET b == block - Direct
      d == b - Per
  IN IF block < Direct THEN file.zone[block]
     ELSE IF b < Per THEN Zone(file.zone[Direct], b)
     ELSE Zone(Zone(file.zone[Direct + 1], d % Per), d \div Per)
bmap(block) ==
  LET b == block - Direct
      d == b - Per
  IN IF block < Direct THEN file.zone[block]
     ELSE IF b < Per THEN Zone(file.zone[Direct], b)
     ELSE Zone(Zone(file.zone[Direct + 1], d \div Per), d % Per)
-----------------------------------------------------------------------------
(* minix_file_read and blkdev_read *)

Call(fn, pos, size) ==
  [fn |-> fn, done |-> FALSE, ret |-> 0,
   at |-> pos, from |-> pos, size |-> size, left |-> size, got |-> <<>>]
Returns(c) == [c EXCEPT !.done = TRUE, !.ret = IF c.size > c.left THEN c.size - c.left ELSE EIO]
Bytes(a, n) == [i \in 1..n |-> a + i - 1]

minix_file_read ==
  LET nr == bmap(call.at \div MINIX_BLOCK_SIZE)
      off == call.at % MINIX_BLOCK_SIZE
      chars == Min({MINIX_BLOCK_SIZE - off, call.left})
      remains == Min({chars, IF call.at < file.size THEN file.size - call.at ELSE 0})
      turn(bytes) == [call EXCEPT !.at = @ + remains, !.left = @ - remains, !.got = @ \o bytes]
  IN /\ call.fn = "read" /\ ~call.done /\ UNCHANGED file
     /\ call' = IF call.left = 0 THEN Returns(call)
                ELSE IF call.at \div MINIX_BLOCK_SIZE >= MaxBlocks
                THEN [call EXCEPT !.done = TRUE, !.ret = BUG]
                ELSE IF nr # 0 /\ get_minix_block(nr) = -1 THEN Returns(call)
                ELSE IF nr # 0
                THEN LET c == turn(Bytes(get_minix_block(nr) + off, remains))
                     IN IF c.at >= file.size THEN Returns(c) ELSE c
                ELSE IF call.at + remains < file.size
                THEN Returns(turn([i \in 1..remains |-> HOLE]))
                ELSE Returns([call EXCEPT !.at = @ + remains])

\* The memory from the offset in a block on.
Memory(block, offset, n) ==
  [i \in 1..n |-> IF offset + i <= BLOCK_SIZE THEN block * BLOCK_SIZE + offset + i - 1
                  ELSE BEYOND]
\* Copies a whole block's length from the offset on, also past the block.
blkdev_read ==
  LET block == call.at \div BLOCK_SIZE
      offset == IF call.got = <<>> THEN call.from % BLOCK_SIZE ELSE 0
      chars == Min({call.left, BLOCK_SIZE})
  IN /\ call.fn = "blkdev" /\ ~call.done /\ UNCHANGED file
     /\ call' = IF call.left = 0 THEN [call EXCEPT !.done = TRUE, !.ret = call.size]
                ELSE IF ~bread(block) THEN Returns(call)
                ELSE [call EXCEPT !.at = @ + chars, !.left = @ - chars,
                                  !.got = @ \o Memory(block, offset, chars)]
-----------------------------------------------------------------------------
(* minix_lookup: i entries seen, minix_d is entry j of block k.  The test    *)
(* for the end of the block is made only when the entry behind it, whatever  *)
(* lies there, has an inode number.                                          *)

Search(name) == [fn |-> "lookup", done |-> FALSE, name |-> name, i |-> 0, k |-> 0, j |-> 0,
                 astray |-> FALSE, ret |-> 0]
minix_lookup ==
  /\ call.fn = "lookup" /\ ~call.done /\ UNCHANGED file
  /\ \E inr \in {0, 1} :
       LET beyond == call.j = DENTRIES_PER_BLOCK
           k == IF beyond /\ inr # 0 THEN call.i \div DENTRIES_PER_BLOCK ELSE call.k
           j == IF beyond /\ inr # 0 THEN 0 ELSE call.j
           d == IF beyond /\ inr = 0 THEN [inr |-> 0, name |-> ""]
                ELSE file.entries[k * DENTRIES_PER_BLOCK + j + 1]
       IN call' = IF call.i = Len(file.entries) \/ call.astray THEN [call EXCEPT !.done = TRUE]
                  ELSE IF d.inr # 0 /\ d.name = call.name
                  THEN [call EXCEPT !.done = TRUE, !.ret = d.inr]
                  ELSE [call EXCEPT !.i = @ + 1, !.k = k, !.j = j + 1,
                                    !.astray = beyond /\ inr = 0]
-----------------------------------------------------------------------------
MinixInit ==
  \/ /\ file \in Files
     /\ \E pos \in Positions, n \in Counts :
          \/ pos <= file.size /\ call = Call("read", pos, n)  \* no file has an lseek
          \/ call = Call("blkdev", pos, n)
  \/ file \in Directories /\ \E name \in Names : call = Search(name)
MinixNext == minix_file_read \/ blkdev_read \/ minix_lookup
MinixSpec == MinixInit /\ [][MinixNext]_minix_vars
-----------------------------------------------------------------------------
\* An index block on the way to block b of the file cannot be read.
IndexBad(z) == z # 0 /\ z \div Ratio \in file.bad
Unreached(b) ==
  LET d == b - Direct - Per
  IN \/ b \in Direct..(Direct + Per - 1) /\ IndexBad(file.zone[Direct])
     \/ d >= 0 /\ \/ IndexBad(file.zone[Direct + 1])
                  \/ IndexBad(Entry(file, file.zone[Direct + 1], d \div Per))

\* The bytes of the file as a reader can have them: zeros where it has no
\* block, and where the block cannot be found.
ZoneOf(b) == IF Unreached(b) THEN 0 ELSE file.zones[b + 1]
Byte(k) == LET z == ZoneOf(k \div MINIX_BLOCK_SIZE)
           IN IF z = 0 THEN HOLE ELSE z * MINIX_BLOCK_SIZE + (k % MINIX_BLOCK_SIZE)
Content == [k \in 1..file.size |-> Byte(k - 1)]
Asked == SubSeq(Content, call.from + 1, Min({call.from + call.size, file.size}))
Unreadable(a) == a # HOLE /\ a \div BLOCK_SIZE \in file.bad

\* A read returns the bytes of the file from its position on, across the index
\* blocks.  Zeros stand for a block that the file does not have and, as if they
\* were its data, for one whose index block cannot be read.  The read stops
\* short of what was asked for only at such a block or at an unreadable one, and
\* BUG_ON is reached only at the end of a file of the largest size.
FileRead ==
  call.fn = "read" /\ call.done =>
    LET n == Len(call.got)
    IN /\ call.got = SubSeq(Asked, 1, n)
       /\ call.ret # BUG =>
            /\ call.ret = IF n > 0 THEN n ELSE EIO
            /\ n < Len(Asked) => \/ Asked[n + 1] = HOLE \/ Unreadable(Asked[n + 1])
                                 \/ n > 0 /\ Asked[n] = HOLE
       /\ call.ret = BUG => /\ call.from = file.size
                            /\ file.size = MaxBlocks * MINIX_BLOCK_SIZE

\* A read of the device returns the bytes of the disk up to the end of the first
\* block, and all of them when it starts with a block; it stops short only at an
\* unreadable block.
DeviceRead ==
  call.fn = "blkdev" /\ call.done =>
    LET n == Len(call.got)
        offset == call.from % BLOCK_SIZE
    IN /\ \A i \in 1..n : offset = 0 \/ offset + i <= BLOCK_SIZE
                            => call.got[i] = call.from + i - 1
       /\ n < call.size => Unreadable(call.from + n)

\* A search that does not run past the end of a block finds the first entry of
\* that name, wherever it is in the directory.
Found == LET hits == {i \in DOMAIN file.entries :
                        file.entries[i].inr # 0 /\ file.entries[i].name = call.name}
         IN IF hits = {} THEN 0 ELSE file.entries[Min(hits)].inr
LookupFinds == call.fn = "lookup" /\ call.done /\ ~call.astray => call.ret = Found

ReadsFile == FileRead /\ DeviceRead /\ LookupFinds
=============================================================================
