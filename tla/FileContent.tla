---------------------------- MODULE FileContent ----------------------------
(***************************************************************************)
(* The contents of files: how the bytes of an inode lie in disk blocks.    *)
(*                                                                         *)
(*   src/fs.c    balloc, bzero, bfree, bmap, itrunc, readi, writei         *)
(*   src/file.c  fileread and filewrite, with filewrite's chunks           *)
(*   src/mkfs.c  iappend, balloc and main, which make the first image      *)
(*                                                                         *)
(* A block is BSIZE cells.  A cell of a data block holds one byte, a cell  *)
(* of a directory one entry (its inum, 0 when free), and a cell of an      *)
(* indirect block one block address, so NINDIRECT = BSIZE.                 *)
(*                                                                         *)
(* One chunk of filewrite, one dirlink and one itrunc are one transaction  *)
(* of the log each, on an inode whose lock is held: each is one action.    *)
(* The steps of two inodes that interleave inside a transaction meet only  *)
(* in the bitmap block, under its buffer's lock.  A panic stops the        *)
(* kernel.  The inode has its copy in memory (ip) and on the disk (dip).   *)
(***************************************************************************)
EXTENDS Integers, Sequences, FiniteSets, FiniteSetsExt, SequencesExt

CONSTANTS
    BSIZE,        \* cells of a block
    NDIRECT,      \* direct addresses of an inode
    FSSIZE,       \* blocks of the disk
    NMETA,        \* the blocks before the data blocks
    BPB,          \* bits of a bitmap block
    FUINT,        \* 2^w for the width w of a uint
    MAXOPBLOCKS,  \* the blocks an operation may log
    NINODES,      \* inodes of the image; inode 1 is the root directory
    Images,       \* the contents of the files given to mkfs
    Fd,           \* open files
    Used,         \* the inodes that are opened, written and unlinked
    Payload,      \* the byte strings that are written
    ReadCount,    \* the counts that are read
    MaxCalls      \* bound on the number of calls

ASSUME FileContentAssumption ==
    /\ BSIZE \in Nat \ {0} /\ NDIRECT \in Nat /\ NMETA \in 1..FSSIZE
    /\ BPB \in Nat \ {0} /\ MAXOPBLOCKS \in Nat
    /\ (NDIRECT + BSIZE) * BSIZE < FUINT
    /\ \A programs \in Images : Len(programs) < NINODES
    /\ Used \subseteq 1..NINODES
    /\ \A src \in Payload : src \in Seq(Nat)
    /\ ReadCount \subseteq 0..(FUINT - 1)

VARIABLES bitmap,   \* the blocks marked in use
          block,    \* what each block holds
          ip,       \* the inodes in memory
          dip,      \* the inodes on the disk
          fd,       \* the open files: inode and offset
          writing,  \* what is left of a filewrite
          content,  \* history: the bytes each inode should hold
          misread,  \* history: some fileread returned other bytes
          logged,   \* history: blocks the last transaction logged
          panicked, \* the message of the panic, or ""
          ncalls    \* calls made so far

contentVars == <<bitmap, block, ip, dip, fd, writing, content, misread,
                 logged, panicked, ncalls>>

Blocks == 0..(FSSIZE - 1)
Cells == 0..(BSIZE - 1)
Inums == 1..NINODES
ROOTINO == 1
NINDIRECT == BSIZE
MAXFILE == NDIRECT + NINDIRECT
Zeroes == [c \in Cells |-> 0]
NewInode == [addrs |-> [i \in 0..NDIRECT |-> 0], size |-> 0]
Closed == [ino |-> 0, off |-> 0]

-----------------------------------------------------------------------------
(***************************************************************************)
(* What a transaction works on: the disk and one locked inode.  addr is    *)
(* the block the last balloc or bmap returned, log the blocks given to     *)
(* log_write, r the value returned.                                        *)
(***************************************************************************)
Work(map, blk, inode) ==
    [bitmap |-> map, block |-> blk, addrs |-> inode.addrs,
     size |-> inode.size, addr |-> 0, log |-> {}, iupdated |-> FALSE,
     panic |-> "", r |-> 0]

Data(b) == <<"block", b>>
BBlock(b) == <<"bitmap", b \div BPB>>
IBlock == <<"inode", 0>>

\* What bzero leaves in block b.
Bzero(s, b) == Zeroes

Balloc(s) ==
    LET free == Blocks \ s.bitmap
        b == Min(free)
    IN  IF free = {} THEN [s EXCEPT !.panic = "balloc: out of blocks"]
        ELSE [s EXCEPT !.bitmap = @ \cup {b}, !.block[b] = Bzero(s, b),
                       !.log = @ \cup {BBlock(b), Data(b)}, !.addr = b]

Bfree(s, b) ==
    IF b \notin s.bitmap THEN [s EXCEPT !.panic = "freeing free block"]
    ELSE [s EXCEPT !.bitmap = @ \ {b}, !.log = @ \cup {BBlock(b)}]

\* The inode's own table: a direct address or that of the indirect block.
OwnEntry(s, i) ==
    IF s.addrs[i] # 0 THEN [s EXCEPT !.addr = s.addrs[i]]
    ELSE LET t == Balloc(s) IN [t EXCEPT !.addrs[i] = t.addr]

IndirectEntry(s, a, i) ==
    IF s.block[a][i] # 0 THEN [s EXCEPT !.addr = s.block[a][i]]
    ELSE LET t == Balloc(s)
         IN  [t EXCEPT !.block[a][i] = t.addr, !.log = @ \cup {Data(a)}]

Bmap(s, bn) ==
    IF bn < NDIRECT THEN OwnEntry(s, bn)
    ELSE IF bn < MAXFILE
         THEN LET t == OwnEntry(s, NDIRECT)
              IN  IF t.panic # "" THEN t
                  ELSE IndirectEntry(t, t.addr, bn - NDIRECT)
         ELSE [s EXCEPT !.panic = "bmap: out of range"]

\* The block numbers that hold the n bytes from off on.
Span(off, n) ==
    IF n = 0 THEN <<>>
    ELSE [k \in 1..((off + n - 1) \div BSIZE - off \div BSIZE + 1) |->
             off \div BSIZE + k - 1]

\* The blocks the inode itself names, the indirect block included.
InodeBlocks(s) == {s.addrs[i] : i \in 0..NDIRECT} \ {0}

\* The blocks itrunc gives to bfree.
ItruncFrees(s) ==
    InodeBlocks(s) \cup
    (IF s.addrs[NDIRECT] = 0 THEN {}
     ELSE {s.block[s.addrs[NDIRECT]][i] : i \in Cells} \ {0})

Itrunc(s) ==
    LET t == FoldLeft(Bfree, s, SetToSeq(ItruncFrees(s)))
    IN  [t EXCEPT !.addrs = NewInode.addrs, !.size = 0,
                  !.iupdated = TRUE, !.log = @ \cup {IBlock}]

-----------------------------------------------------------------------------
(***************************************************************************)
(* readi and writei.  off + n is computed modulo FUINT.                    *)
(***************************************************************************)
Outside(s, off, n) == off > s.size \/ (off + n) % FUINT < off

ClippedFault(s, off, n) ==
    IF off + n > s.size THEN s.size - off + 1 ELSE n

Clipped(s, off, n) == IF off + n > s.size THEN s.size - off ELSE n

Readi(s, off, n) ==
    IF Outside(s, off, n) THEN [s |-> [s EXCEPT !.r = -1], dst |-> <<>>]
    ELSE LET n1 == Clipped(s, off, n)
             t == FoldLeft(Bmap, s, Span(off, n1))
         IN  [s |-> [t EXCEPT !.r = n1],
              dst |-> [k \in 1..n1 |->
                          t.block[Bmap(t, (off + k - 1) \div BSIZE).addr]
                                 [(off + k - 1) % BSIZE]]]

\* One turn of writei's loop: the bytes of src that fall into block bn.
WriteBlock(s, bn, off, src) ==
    LET t == Bmap(s, bn)
        pos(c) == bn * BSIZE + c - off + 1
    IN  IF t.panic # "" THEN t
        ELSE [t EXCEPT !.log = @ \cup {Data(t.addr)},
                       !.block[t.addr] =
                  [c \in Cells |-> IF pos(c) \in 1..Len(src) THEN src[pos(c)]
                                   ELSE @[c]]]

TooLong(off, n) == off + n > MAXFILE * BSIZE

GrownFault(s, end) == [s EXCEPT !.size = end, !.log = @ \cup {IBlock}]

\* The new size, and iupdate; writei calls it only when the file grew.
Grown(s, end) ==
    [s EXCEPT !.size = end, !.log = @ \cup {IBlock}, !.iupdated = TRUE]

Writei(s, off, src) ==
    LET n == Len(src)
        turn(t, bn) == WriteBlock(t, bn, off, src)
        w == FoldLeft(turn, s, Span(off, n))
    IN  IF Outside(s, off, n) \/ TooLong(off, n) THEN [s EXCEPT !.r = -1]
        ELSE IF n > 0 /\ off + n > s.size
             THEN [Grown(w, off + n) EXCEPT !.r = n]
             ELSE [w EXCEPT !.r = n]
-----------------------------------------------------------------------------
(***************************************************************************)
(* mkfs.  The blocks below freeblock are the ones in use, so freeblock++   *)
(* gives the block that balloc would give, and iappend is writei at the    *)
(* end of the file.  The image is [disk, inode], with the disk as above.   *)
(***************************************************************************)
Iappend(img, inum, src) ==
    LET w == Writei(Work(img.bitmap, img.block, img.inode[inum]),
                    img.inode[inum].size, src)
    IN  [bitmap |-> w.bitmap, block |-> w.block,
         inode |-> [img.inode EXCEPT ![inum] =
                       [addrs |-> w.addrs, size |-> w.size]]]

\* The size given to the root directory: off rounded up, and one block
\* more when off is a multiple of BSIZE.
RootSize(off) == (off \div BSIZE + 1) * BSIZE

\* main appends "." and "..", and for each program its entry and its bytes.
MkfsImage(programs) ==
    LET empty == [bitmap |-> 0..(NMETA - 1),
                  block |-> [b \in Blocks |-> Zeroes],
                  inode |-> [i \in Inums |-> NewInode]]
        add(img, what) == Iappend(img, what[1], what[2])
        appended == << <<ROOTINO, <<ROOTINO, ROOTINO>> >> >> \o
                    FlattenSeq([k \in 1..Len(programs) |->
                        << <<ROOTINO, <<k + 1>> >>, <<k + 1, programs[k]>> >>])
    IN  [FoldLeft(add, empty, appended) EXCEPT
            !.inode[ROOTINO].size = RootSize(@)]

\* The bytes mkfs was asked to store, with the root directory filled up.
MkfsContent(programs, i, size) ==
    LET bytes == IF i = ROOTINO
                 THEN <<ROOTINO, ROOTINO>> \o
                      [k \in 1..Len(programs) |-> k + 1]
                 ELSE IF i - 1 \in DOMAIN programs THEN programs[i - 1]
                 ELSE <<>>
    IN  bytes \o [k \in 1..(size - Len(bytes)) |-> 0]

ContentInit ==
    \E programs \in Images : \E img \in {MkfsImage(programs)} :
        /\ bitmap = img.bitmap
        /\ block = img.block
        /\ ip = img.inode
        /\ dip = img.inode
        /\ fd = [d \in Fd |-> Closed]
        /\ writing = [d \in Fd |-> <<>>]
        /\ content = [i \in Inums |->
                         MkfsContent(programs, i, img.inode[i].size)]
        /\ misread = FALSE /\ logged = 0 /\ panicked = "" /\ ncalls = 0
-----------------------------------------------------------------------------
Locked(i) == Work(bitmap, block, ip[i])

\* The end of a transaction on inode i that left s.
Commit(i, s) ==
    IF s.panic # ""
    THEN /\ panicked' = s.panic
         /\ UNCHANGED <<bitmap, block, ip, dip, logged>>
    ELSE /\ bitmap' = s.bitmap
         /\ block' = s.block
         /\ ip' = [ip EXCEPT ![i] = [addrs |-> s.addrs, size |-> s.size]]
         /\ dip' = IF s.iupdated THEN [dip EXCEPT ![i] = ip'[i]] ELSE dip
         /\ logged' = Cardinality(s.log)
         /\ UNCHANGED panicked

\* A new call; the history of what the files should hold follows writes.
Call == /\ panicked = ""
        /\ ncalls < MaxCalls
        /\ ncalls' = ncalls + 1

Overwritten(old, off, src) ==
    [k \in 1..Max({Len(old), off + Len(src)}) |->
        IF k - off \in 1..Len(src) THEN src[k - off] ELSE old[k]]

OpenFile(d, i) ==
    /\ panicked = ""
    /\ fd[d] = Closed
    /\ fd' = [fd EXCEPT ![d] = [ino |-> i, off |-> 0]]
    /\ UNCHANGED <<bitmap, block, ip, dip, writing, content, misread,
                   logged, panicked, ncalls>>

CloseFile(d) ==
    /\ panicked = ""
    /\ fd[d] # Closed /\ writing[d] = <<>>
    /\ fd' = [fd EXCEPT ![d] = Closed]
    /\ UNCHANGED <<bitmap, block, ip, dip, writing, content, misread,
                   logged, panicked, ncalls>>

\* What a read of n bytes at off should return; nothing where off + n wraps.
Expected(i, off, n) ==
    IF off + n >= FUINT THEN <<>>
    ELSE SubSeq(content[i], off + 1, Min({off + n, Len(content[i])}))

\* fileread runs outside a transaction, where log_write panics.
Fileread(d, n) ==
    /\ Call
    /\ fd[d] # Closed /\ writing[d] = <<>>
    /\ \E res \in {Readi(Locked(fd[d].ino), fd[d].off, n)} :
          LET s == IF res.s.log = {} THEN res.s
                   ELSE [res.s EXCEPT !.panic = "log_write outside of trans"]
          IN  /\ Commit(fd[d].ino, s)
              /\ fd' = IF s.r > 0 THEN [fd EXCEPT ![d].off = @ + s.r] ELSE fd
              /\ misread' = (misread \/
                             res.dst # Expected(fd[d].ino, fd[d].off, n))
    /\ UNCHANGED <<writing, content>>

\* Directories are opened for reading only.
Filewrite(d, src) ==
    /\ Call
    /\ fd[d] # Closed /\ fd[d].ino # ROOTINO /\ writing[d] = <<>>
    /\ writing' = [writing EXCEPT ![d] = src]
    /\ UNCHANGED <<bitmap, block, ip, dip, fd, content, misread, logged,
                   panicked>>

ChunkMaxFault == ((MAXOPBLOCKS - 1 - 1) \div 2) * BSIZE

ChunkMax == ((MAXOPBLOCKS - 1 - 1 - 2) \div 2) * BSIZE

\* One turn of filewrite's loop; a chunk that is refused ends the call.
FilewriteChunk(d) ==
    LET n1 == Min({Len(writing[d]), ChunkMax})
        src == SubSeq(writing[d], 1, n1)
        i == fd[d].ino
    IN  /\ panicked = ""
        /\ writing[d] # <<>>
        /\ \E s \in {Writei(Locked(i), fd[d].off, src)} :
              /\ Commit(i, s)
              /\ IF s.panic # "" THEN UNCHANGED <<writing, fd, content>>
                 ELSE IF s.r < 0
                 THEN /\ writing' = [writing EXCEPT ![d] = <<>>]
                      /\ UNCHANGED <<fd, content>>
                 ELSE /\ writing' = [writing EXCEPT
                             ![d] = SubSeq(@, n1 + 1, Len(@))]
                      /\ fd' = [fd EXCEPT ![d].off = @ + s.r]
                      /\ content' = [content EXCEPT ![i] =
                                        Overwritten(@, fd[d].off, src)]
        /\ UNCHANGED <<misread, ncalls>>

\* iput found that its reference is the only one.
Unreferenced(i) == \A d \in Fd : fd[d].ino # i

\* iput of the last reference to an unlinked file, and the reuse of its
\* inode as an empty file.
Unlinked(i) ==
    /\ Call
    /\ i # ROOTINO /\ Unreferenced(i)
    /\ Commit(i, Itrunc(Locked(i)))
    /\ content' = [content EXCEPT ![i] = <<>>]
    /\ UNCHANGED <<fd, writing, misread>>

\* dirlink and unlink write one entry: dirlink into the first free slot or
\* at the end.
FreeSlot(i) ==
    Min({k \in 0..(ip[i].size - 1) : content[i][k + 1] = 0} \cup {ip[i].size})

WriteEntry(off, inum) ==
    /\ Call
    /\ \E w \in {Writei(Locked(ROOTINO), off, <<inum>>)} :
          LET s == IF w.r = 1 THEN w ELSE [w EXCEPT !.panic = "dirlink"]
          IN  /\ Commit(ROOTINO, s)
              /\ content' = IF s.panic # "" THEN content
                            ELSE [content EXCEPT ![ROOTINO] =
                                     Overwritten(@, off, <<inum>>)]
    /\ UNCHANGED <<fd, writing, misread>>

AddEntry(inum) == WriteEntry(FreeSlot(ROOTINO), inum)

RemoveEntry ==
    \E k \in 2..(ip[ROOTINO].size - 1) :
        content[ROOTINO][k + 1] # 0 /\ WriteEntry(k, 0)

ContentNext ==
    \/ \E d \in Fd, i \in Used : OpenFile(d, i)
    \/ \E d \in Fd : CloseFile(d)
    \/ \E d \in Fd, n \in ReadCount : Fileread(d, n)
    \/ \E d \in Fd, src \in Payload : Filewrite(d, src)
    \/ \E d \in Fd : FilewriteChunk(d)
    \/ \E i \in Used : Unlinked(i)
    \/ AddEntry(NINODES)
    \/ RemoveEntry

ContentSpec == ContentInit /\ [][ContentNext]_contentVars
-----------------------------------------------------------------------------
(***************************************************************************)
(* Properties.                                                             *)
(***************************************************************************)
\* The state has its shape: addresses are data blocks or 0, sizes stay
\* within MAXFILE blocks, and no offset runs past the end of its file
\* (else readi and writei would refuse the next call).
ContentTypeOK ==
    /\ bitmap \subseteq Blocks
    /\ \A i \in Inums : /\ ip[i].size \in 0..(MAXFILE * BSIZE)
                        /\ \A k \in 0..NDIRECT :
                              ip[i].addrs[k] \in {0} \cup NMETA..(FSSIZE - 1)
    /\ \A d \in Fd : fd[d] # Closed => fd[d].off \in 0..ip[fd[d].ino].size

\* fileread returns exactly the bytes that the writes so far, of all
\* transactions and before them of mkfs, put there: across direct and
\* indirect blocks, clipped at the end of the file, and none where off + n
\* wraps around.
ReadsBack == ~misread

\* The blocks an inode owns, in the order of the table and once for each
\* entry that names them.
Owned(i) ==
    LET a == ip[i].addrs
        ind == IF a[NDIRECT] = 0 THEN Zeroes ELSE block[a[NDIRECT]]
    IN  SelectSeq([k \in 1..(NDIRECT + 1) |-> a[k - 1]] \o
                  [k \in 1..NINDIRECT |-> ind[k - 1]], LAMBDA b : b # 0)

\* balloc, bfree and itrunc keep the bitmap exact: a block is in use if and
\* only if it is a block of metadata or some inode names it, and no two
\* entries name the same block, so that files never share bytes and no
\* block leaks.
BitmapExact ==
    LET all == FlattenSeq([i \in Inums |-> Owned(i)])
    IN  /\ IsInjective(all)
        /\ bitmap = 0..(NMETA - 1) \cup Range(all)

\* Every block below the size of an inode is there.  bmap would allocate a
\* missing one in readi, outside a transaction and without iupdate.
SizeBacked ==
    \A i \in Inums :
        FoldLeft(Bmap, Locked(i), Span(0, ip[i].size)).log = {}

\* Between transactions the inode on the disk is the one in memory, although
\* writei calls iupdate only when the file grew: no address that bmap
\* stored is lost when the inode leaves the cache.
DiskInodeCurrent == panicked = "" => dip = ip

\* The chunks of filewrite, like dirlink and itrunc, log at most
\* MAXOPBLOCKS blocks, even unaligned, with every block allocated, the
\* indirect block as well and each bit in a bitmap block of its own.
TransactionFits == logged <= MAXOPBLOCKS

\* The kernel panics only where a resource is used up: balloc when no block
\* is free, dirlink when the directory has no slot left and is MAXFILE
\* blocks long.
PanicOnlyWhenFull ==
    \/ panicked = ""
    \/ panicked = "balloc: out of blocks" /\
       Cardinality(Blocks \ bitmap) <= ChunkMax \div BSIZE + 1
    \/ panicked = "dirlink" /\ ip[ROOTINO].size = MAXFILE * BSIZE

\* The blocks of the disk are consistent after every transaction, from the
\* image that mkfs makes on: bitmap, addresses, sizes and the inodes on disk
\* agree.
BlocksConsistent ==
    ContentTypeOK /\ BitmapExact /\ SizeBacked /\ DiskInodeCurrent

\* A call stays within what begin_op reserved and panics only for want of
\* space.
WithinLimits == TransactionFits /\ PanicOnlyWhenFull

=============================================================================
