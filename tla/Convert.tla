------------------------------- MODULE Convert ------------------------------
(***************************************************************************)
(* cvcromfs (util/cvcromfs.cc): an image of another version of the format, *)
(* or with the other kind of data locators.  Everything is a function of   *)
(* the image that is read.  The tables are compressed again or left as     *)
(* they are, which makes no difference to what they say.                   *)
(***************************************************************************)
EXTENDS Format

CONSTANT LzmaSize   \* compressed size of an inode or of the block table

Version(img) == img.sb.sig

\* Version 1 does not compress the two special inodes.
WantCompression(ver) == ver >= 2

\* StorageOptToucher: what is read of the source.
OldOpts(img) == IF Version(img) >= 3 THEN img.inotab.opts
                ELSE [numsize |-> 4, packed |-> FALSE, variable |-> FALSE]

\* What the source has of block number width and block sizes must stay.
NewOpts(img, ver, packed) == [OldOpts(img) EXCEPT !.packed = packed /\ ver >= 3]

\* cvcromfs tells that an old version has no such numbers, and goes on.
Complains(img, ver) == ver < 3 /\ OldOpts(img).numsize < 4

\* Convert refuses an image that has the version already, unless forced.
SameVer(img, ver, force) == Version(img) = ver /\ ~force

\* BlkTabConverter.
ConvertBlkTab(img, new) ==
    IF OldOpts(img).packed = new.packed THEN img.blktab
    ELSE [b \in DOMAIN img.blktab |->
            EncodeLocator(DecodeLocator(img.blktab[b], OldOpts(img)), new)]

RegionSize(raw, ver) == IF WantCompression(ver) THEN LzmaSize
                        ELSE INODE_SIZE_BYTES(raw.as, Len(raw.blocks))

\* The regions one behind the other, then the fblocks; the rooms are the sizes.
NewSuperblock(img, ver) ==
    LET rootdir == RegionSize(img.rootdir, ver)
        inotab  == RegionSize(img.inotab.raw, ver)
    IN  WriteToBuffer(SetOffsets([ReadFromBuffer(img.sb) EXCEPT
            !.sig = ver,
            !.rootdir_size = rootdir,  !.rootdir_room = rootdir,
            !.inotab_size  = inotab,   !.inotab_room  = inotab,
            !.blktab_size  = LzmaSize, !.blktab_room  = LzmaSize]))

\* The inodes are copied; the options are written where the version has them.
ConvertImage(img, ver, packed) ==
    LET new == NewOpts(img, ver, packed)
    IN  [img EXCEPT !.sb = NewSuperblock(img, ver),
                    !.lzma = WantCompression(ver),
                    !.inotab.opts = IF ver >= 3 THEN new ELSE @,
                    !.blktab = ConvertBlkTab(img, new)]
=============================================================================
