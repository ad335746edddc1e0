------------------------------ MODULE Ext2Cat ------------------------------
(***************************************************************************)
(* filesystem/ext2cat.c over lib/ext2_access.c and lib/mmapfs.c: the        *)
(* program maps an image, finds the inode a path names and copies its      *)
(* blocks to standard output.                                              *)
(*                                                                         *)
(* An image has an inode table, and for every block two views: the entries *)
(* it holds when it is read as a block of a directory, and the pointers it *)
(* holds when it is read as an indirect block.  What a block holds as data *)
(* is known by its number.  Block 0, which unused pointers name, is zero,  *)
(* and so is any block without entries.  Images have 1K blocks in the code *)
(* (the group descriptor is then in block 2), smaller ones here.           *)
(***************************************************************************)
EXTENDS Integers, FiniteSetsExt, SequencesExt

CONSTANTS
    Images,             \* the images
    Paths,              \* the second argument: a sequence of characters
    EXT2_NDIR_BLOCKS,   \* the direct blocks of an inode
    ADDR_PER_BLOCK      \* the pointers in an indirect block

EXT2_ROOT_INO == 2

\* A block of text read as an entry: it has no name anyone asks for, and a rec_len
\* that leads out of the block.
Text == [inode |-> 0, name |-> <<"text">>]

\* The first entry of a block of zeros.
Zero == [inode |-> 0, name |-> <<>>]

\* The characters of names and paths, as TLC can write them.
Characters == STRING

\* What the program reads of an inode; the pointer behind the direct ones is that to
\* the indirect block.
Inode == [i_size : Nat, i_block : [0 .. EXT2_NDIR_BLOCKS -> Nat]]

\* Pointers are four bytes wide.
block_size == 4 * ADDR_PER_BLOCK

\* The pointers to direct blocks lead into the image, not to its very end, and are 0
\* behind the end of the file.
PointersOK(fs, inode) ==
    \A k \in 0 .. EXT2_NDIR_BLOCKS - 1 :
        /\ {inode.i_block[k], inode.i_block[k] + 1} \subseteq DOMAIN fs.entries
        /\ k * block_size >= inode.i_size => inode.i_block[k] = 0

\* An entry of a directory.
EntryIn(fs) == [inode : DOMAIN fs.inodes \cup {0}, name : Seq(Characters)]

\* What an image is: block 0 has no entries, and an entry names an inode of the table
\* or, with 0, none.
ImageOK(fs) ==
    /\ EXT2_ROOT_INO \in DOMAIN fs.inodes /\ 0 \notin DOMAIN fs.inodes
    /\ \A n \in DOMAIN fs.inodes : fs.inodes[n] \in Inode /\ PointersOK(fs, fs.inodes[n])
    /\ \A b \in DOMAIN fs.entries : fs.entries[b] \in Seq(EntryIn(fs))
    /\ fs.entries[0] = <<>>

ASSUME Ext2Assumption ==
    /\ EXT2_NDIR_BLOCKS \in Nat \ {0} /\ ADDR_PER_BLOCK \in Nat \ {0}
    /\ \A p \in Paths : p \in Seq(Characters) /\ p # <<>>
    /\ \A m \in Images : ImageOK(m)

VARIABLES
    image, path,        \* what the program is called with
    pc,                 \* "called", "walking", "direct", "indirect", "exited"
    parts, part,        \* the names of the path, and the one looked up next
    root,               \* the directory the walk is in, then the target
    out,                \* what has been copied: blocks, with the bytes taken of each
    bytes_read,
    answer              \* how the program ended

vars == <<image, path, pc, parts, part, root, out, bytes_read, answer>>

Init ==
    /\ image \in Images /\ path \in Paths
    /\ pc = "called"
    /\ parts = <<>> /\ part = 1 /\ root = EXT2_ROOT_INO
    /\ out = <<>> /\ bytes_read = 0
    /\ answer = "none"

get_inode(fs, number) == fs.inodes[number]

Exits(a) == pc' = "exited" /\ answer' = a
-----------------------------------------------------------------------------
(* Finding the inode.                                                      *)

\* The path without its first character, cut at the slashes.
split_path(p) ==
    LET text == Tail(p)
        cut[n \in 0 .. Len(text)] ==
            IF n = 0 THEN << <<>> >>
            ELSE IF text[n] = "/" THEN Append(cut[n - 1], <<>>)
            ELSE [cut[n - 1] EXCEPT ![Len(cut[n - 1])] = Append(@, text[n])]
    IN  cut[Len(text)]

FirstEntry(fs, b) == IF fs.entries[b] = <<>> THEN Zero ELSE Head(fs.entries[b])

\* The entries the loop over block b compares.  The loop goes on while the pointer
\* is at most the end of the block, and tests the length of the entry before the
\* pointer: the first entry of the block behind is compared as well.
Compared(fs, b) ==
    IF fs.entries[b] = <<>> \/ Head(fs.entries[b]) = Text
    THEN fs.entries[b]
    ELSE Append(fs.entries[b], FirstEntry(fs, b + 1))

\* strncmp compares as many characters as the entry's name has.
Matches(name, entry) == IsPrefix(entry.name, name)

Hits(fs, b, name) == {j \in DOMAIN Compared(fs, b) : Matches(name, Compared(fs, b)[j])}

\* The inode of the first entry that matches, in the first block that has one.
\* Mutant: the last direct block is not searched.
get_inode_from_dir_oneBlockLess(fs, dir, name) ==
    LET i_block == get_inode(fs, dir).i_block
        blocks == {k \in 0 .. EXT2_NDIR_BLOCKS - 2 : Hits(fs, i_block[k], name) # {}}
        b == i_block[Min(blocks)]
    IN  IF blocks = {} THEN 0 ELSE Compared(fs, b)[Min(Hits(fs, b, name))].inode

get_inode_from_dir(fs, dir, name) ==
    LET i_block == get_inode(fs, dir).i_block
        blocks == {k \in 0 .. EXT2_NDIR_BLOCKS - 1 : Hits(fs, i_block[k], name) # {}}
        b == i_block[Min(blocks)]
    IN  IF blocks = {} THEN 0 ELSE Compared(fs, b)[Min(Hits(fs, b, name))].inode

\* Wrong arguments, or mmap_fs exits because the image cannot be opened or mapped.
Fail == pc = "called" /\ Exits("error") /\ UNCHANGED <<image, path, parts, part, root, out, bytes_read>>

mmap_fs ==
    /\ pc = "called"
    /\ pc' = "walking"
    /\ parts' = split_path(path)
    /\ UNCHANGED <<image, path, part, root, out, bytes_read, answer>>

\* One iteration of get_inode_by_path.
Enter ==
    LET res == get_inode_from_dir(image, root, parts[part]) IN
    /\ pc = "walking" /\ res # 0
    /\ root' = res
    /\ part' = part + 1
    /\ pc' = IF part = Len(parts) THEN "direct" ELSE "walking"
    /\ UNCHANGED <<image, path, parts, out, bytes_read, answer>>

DoesNotExist ==
    /\ pc = "walking" /\ get_inode_from_dir(image, root, parts[part]) = 0
    /\ Exits("does not exist")
    /\ UNCHANGED <<image, path, parts, part, root, out, bytes_read>>
-----------------------------------------------------------------------------
(* Copying the blocks.                                                     *)

bytes_left == get_inode(image, root).i_size - bytes_read

bytes_to_read == IF bytes_left > block_size THEN block_size ELSE bytes_left

\* memcpy of the next piece.  The code does not test whether the block is in the image;
\* if it is not, what is read is not the file, and the behaviour ends here.
Copy(b) ==
    IF b \in DOMAIN image.entries
    THEN /\ out' = Append(out, [block |-> b, bytes |-> bytes_to_read])
         /\ bytes_read' = bytes_read + bytes_to_read
         /\ UNCHANGED <<pc, answer>>
    ELSE Exits("fault") /\ UNCHANGED <<out, bytes_read>>

CopyDirect ==
    /\ pc = "direct" /\ bytes_left > 0 /\ Len(out) < EXT2_NDIR_BLOCKS
    /\ Copy(get_inode(image, root).i_block[Len(out)])
    /\ UNCHANGED <<image, path, parts, part, root>>

DirectDone ==
    /\ pc = "direct" /\ (bytes_left = 0 \/ Len(out) = EXT2_NDIR_BLOCKS)
    /\ pc' = "indirect"
    /\ UNCHANGED <<image, path, parts, part, root, out, bytes_read, answer>>

\* The pointer n places behind the start of the indirect block: the places go on
\* in the blocks behind it.
\* Mutant: the first pointer is skipped.
Pointer_fromOne(n) ==
    LET start == get_inode(image, root).i_block[EXT2_NDIR_BLOCKS] IN
    image.pointers[start + (n + 1) \div ADDR_PER_BLOCK][((n + 1) % ADDR_PER_BLOCK) + 1]

Pointer(n) ==
    LET start == get_inode(image, root).i_block[EXT2_NDIR_BLOCKS] IN
    image.pointers[start + n \div ADDR_PER_BLOCK][(n % ADDR_PER_BLOCK) + 1]

next_block == Len(out) - EXT2_NDIR_BLOCKS

\* The loop is bounded by the bytes of a block, not by its pointers.
MorePointers == bytes_left > 0 /\ next_block < block_size

CopyIndirect ==
    /\ pc = "indirect" /\ MorePointers
    /\ Copy(Pointer(next_block))
    /\ UNCHANGED <<image, path, parts, part, root>>

write ==
    /\ pc = "indirect" /\ ~MorePointers
    /\ Exits(IF bytes_left > 0 THEN "truncated" ELSE "copied")
    /\ UNCHANGED <<image, path, parts, part, root, out, bytes_read>>

Next ==
    \/ Fail \/ mmap_fs \/ Enter \/ DoesNotExist
    \/ CopyDirect \/ DirectDone \/ CopyIndirect \/ write

Spec == Init /\ [][Next]_vars
-----------------------------------------------------------------------------
(* What an image says, apart from how the code reads it.                   *)

\* The k-th block of a file, counted from 0, as far as one indirect block goes.
BlockOf(fs, ino, k) ==
    LET i_block == get_inode(fs, ino).i_block IN
    IF k < EXT2_NDIR_BLOCKS THEN i_block[k]
    ELSE fs.pointers[i_block[EXT2_NDIR_BLOCKS]][k - EXT2_NDIR_BLOCKS + 1]

MaxBlocks == EXT2_NDIR_BLOCKS + ADDR_PER_BLOCK

Blocks(fs, ino) == (get_inode(fs, ino).i_size + block_size - 1) \div block_size

\* How many bytes of the file are in its k-th block.
BytesOf(fs, ino, k) ==
    LET rest == get_inode(fs, ino).i_size - k * block_size IN IF rest > block_size THEN block_size ELSE rest

BlocksOf(fs, ino) == {BlockOf(fs, ino, k) : k \in {n \in 0 .. MaxBlocks - 1 : n < Blocks(fs, ino)}}

Entries(fs, dir) == UNION {Range(fs.entries[b]) : b \in BlocksOf(fs, dir) \cap DOMAIN fs.entries}

\* The inode a directory lists under a name, 0 if there is none.
Listed(fs, dir, name) ==
    IF \E e \in Entries(fs, dir) : e.name = name
    THEN (CHOOSE e \in Entries(fs, dir) : e.name = name).inode
    ELSE 0

\* The entries in front of the blocks behind those of a directory.
Behind(fs, dir) == {FirstEntry(fs, b + 1) : b \in BlocksOf(fs, dir)}

\* The entries that can be taken for the one named: those of another inode whose
\* name the name begins with.
Impostors(fs, dir, name) ==
    {e \in Entries(fs, dir) \cup Behind(fs, dir) : IsPrefix(e.name, name) /\ e.inode # Listed(fs, dir, name)}

\* The inodes of the first n names of a path, for every n.
Named(fs, p) ==
    LET names == split_path(p)
        named[n \in 0 .. Len(names)] ==
            IF n = 0 THEN EXT2_ROOT_INO
            ELSE IF named[n - 1] = 0 THEN 0 ELSE Listed(fs, named[n - 1], names[n])
    IN  named

\* Some directory on the way is one that get_inode_from_dir does not search well:
\* it has an impostor for the name, or more than its direct blocks.
Misleading(fs, p) ==
    \E n \in 1 .. Len(split_path(p)) :
        LET dir == Named(fs, p)[n - 1] IN
        /\ dir # 0
        /\ \/ Impostors(fs, dir, split_path(p)[n]) # {}
           \/ Blocks(fs, dir) > EXT2_NDIR_BLOCKS
-----------------------------------------------------------------------------
(* Properties.                                                             *)

\* Types.  That entries name inodes of the table is assumed of the images.
TypeOK ==
    /\ image \in Images /\ path \in Paths
    /\ pc \in {"called", "walking", "direct", "indirect", "exited"}
    /\ root \in DOMAIN image.inodes
    /\ out \in Seq([block : DOMAIN image.entries, bytes : Nat]) /\ bytes_read \in Nat

\* A path leads to the file the image lists under it, and to no file exactly if
\* there is none, through all directories on the way.  The only exceptions are the
\* names with an impostor: those that begin with the whole name of another entry,
\* and those for which the block behind a block of the directory begins with a
\* prefix (a block of zeros does, with the empty name).
LookupExact ==
    /\ answer = "does not exist" => Named(image, path)[Len(parts)] = 0 \/ Misleading(image, path)
    /\ pc \in {"direct", "indirect"} \/ answer \in {"truncated", "copied"}
        => root = Named(image, path)[Len(parts)] \/ Misleading(image, path)

\* What is written is the file, block by block and to its last byte, if one indirect
\* block is enough for it: the loop leaves off in time although its bound is four
\* times too large.  Of a longer file as many blocks are right.  Memory outside the
\* image is read only for a block the file has, and only where the image itself places
\* that block outside or one indirect block is not enough: no pointer behind the end
\* of the file is followed.
CopyExact ==
    /\ answer \in {"truncated", "copied"} =>
        /\ \A k \in DOMAIN out : k <= MaxBlocks =>
            out[k] = [block |-> BlockOf(image, root, k - 1), bytes |-> BytesOf(image, root, k - 1)]
        /\ Blocks(image, root) <= MaxBlocks =>
            /\ answer = "copied"
            /\ Len(out) = Blocks(image, root) /\ bytes_read = get_inode(image, root).i_size
    /\ answer = "fault" =>
        /\ Len(out) < Blocks(image, root)
        /\ Len(out) < MaxBlocks => BlockOf(image, root, Len(out)) \notin DOMAIN image.entries

-----------------------------------------------------------------------------
(* The strengthening that makes the properties inductive; it is used by    *)
(* Ext2CatProofs.                                                          *)

\* The walk has found the target.
Arrived == pc \in {"direct", "indirect"} \/ answer \in {"truncated", "copied"}

PartsInv == pc = "walking" \/ Arrived \/ answer = "does not exist" => parts = split_path(path)

\* How far the walk has come.
WalkInv ==
    /\ pc = "called" => root = EXT2_ROOT_INO /\ part = 1
    /\ pc = "walking" => part \in 1 .. Len(parts) /\ (root = Named(image, path)[part - 1] \/ Misleading(image, path))
    /\ pc # "exited" => answer = "none"
    /\ LookupExact

\* No piece has been copied behind the end of the file, and each is what it should be.
CopyInv ==
    LET n == Len(out)
        size == get_inode(image, root).i_size
    IN
    /\ pc \in {"called", "walking"} => out = <<>> /\ bytes_read = 0
    /\ Arrived =>
        /\ n = 0 \/ (n - 1) * block_size < size
        /\ bytes_read = IF n * block_size < size THEN n * block_size ELSE size
        /\ \A k \in DOMAIN out : k <= MaxBlocks =>
            out[k] = [block |-> BlockOf(image, root, k - 1), bytes |-> BytesOf(image, root, k - 1)]
    /\ pc = "direct" => n <= EXT2_NDIR_BLOCKS
    /\ pc = "indirect" => n >= EXT2_NDIR_BLOCKS \/ bytes_read = size
    /\ CopyExact

IInv == TypeOK /\ PartsInv /\ WalkInv /\ CopyInv
=============================================================================
