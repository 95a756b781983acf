---------------------------- MODULE LoaderSearch ----------------------------
(***************************************************************************)
(* How the loader finds UnderVolter.efi (src/src/Loader.c): in its own     *)
(* directory, in the preferred directory of its own volume, anywhere on    *)
(* that volume down to a depth, and then on every volume that has an \EFI. *)
(*                                                                         *)
(* A disk is a record: `volumes`, in the order of their handles; `own`,    *)
(* the volume of the loader's device handle, or 0 when that handle has no  *)
(* file system; `dir`, the directory the loader was started from.          *)
(***************************************************************************)
EXTENDS Volumes

(* A loader whose device handle has no file system is on no volume.        *)
IsDisk(disk) ==
  /\ disk.volumes \in Seq(Range(disk.volumes))
  /\ \A k \in DOMAIN disk.volumes : IsVolume(disk.volumes[k])
  /\ disk.own \in 0 .. Len(disk.volumes)
  /\ IsPath(disk.dir)

FileName     == "UnderVolter.efi"
PreferredDir == <<"EFI", "OC", "Drivers">>
MaxDepth     == 4

Nowhere == [volume |-> 0, path |-> NoPath]

At(k, path) == IF path = NoPath THEN Nowhere ELSE [volume |-> k, path |-> path]

(* Mutant of FindFileRecursive: the last level is not searched.            *)
FindFileRecursiveShallow(v) ==
  LET Find[dir \in DOMAIN v.list] ==
        LET Look(found, e) ==
              IF found # NoPath THEN found
              ELSE IF e.kind = "dir" /\ Append(dir, e.name) \in DOMAIN v.list
                   THEN Find[Append(dir, e.name)]
              ELSE IF e.kind = "file" /\ e.name = FileName THEN Append(dir, FileName)
              ELSE NoPath
        IN  IF Len(dir) >= MaxDepth THEN NoPath ELSE FoldLeft(Look, NoPath, Read(v, dir))
  IN  Find[<< >>]

(* Depth first, in the order of the listings.  A directory that cannot be  *)
(* opened is passed over; a read error ends the listing of its directory.  *)
FindFileRecursive(v) ==
  LET Find[dir \in DOMAIN v.list] ==
        LET Look(found, e) ==
              IF found # NoPath THEN found
              ELSE IF e.kind = "dir" /\ Append(dir, e.name) \in DOMAIN v.list
                   THEN Find[Append(dir, e.name)]
              ELSE IF e.kind = "file" /\ e.name = FileName THEN Append(dir, FileName)
              ELSE NoPath
        IN  IF Len(dir) > MaxDepth THEN NoPath ELSE FoldLeft(Look, NoPath, Read(v, dir))
  IN  Find[<< >>]

FindUnderVolterOnDevice(disk, k) ==
  IF k # 0 /\ disk.volumes[k].mounts THEN At(k, FindFileRecursive(disk.volumes[k])) ELSE Nowhere

(* One directory of one volume.                                            *)
FindUnderVolterIn(disk, k, dir) ==
  IF k # 0 /\ Opens(disk.volumes[k], Append(dir, FileName))
  THEN At(k, Append(dir, FileName)) ELSE Nowhere

IsEfiSystemPartition(disk, k) == Opens(disk.volumes[k], <<"EFI">>)

(* One attempt for each volume: in a partition the preferred directory,    *)
(* then everywhere.                                                        *)
FindUnderVolterOnAllFileSystems(disk) ==
  [k \in DOMAIN disk.volumes |->
     LET preferred == FindUnderVolterIn(disk, k, PreferredDir)
     IN  IF ~IsEfiSystemPartition(disk, k) THEN Nowhere
         ELSE IF preferred # Nowhere THEN preferred
         ELSE FindUnderVolterOnDevice(disk, k)]

(* What the attempts of StartUnderVolter come to; it takes the first that  *)
(* is not Nowhere.  Without the protocol of its own image the loader       *)
(* starts with the fourth step; without a file path it has no directory of *)
(* its own.                                                                *)
FindUnderVolter(disk, knowsImage, knowsDir) ==
  LET own == IF knowsImage THEN disk.own ELSE 0
  IN  <<IF knowsDir THEN FindUnderVolterIn(disk, own, disk.dir) ELSE Nowhere,
        FindUnderVolterIn(disk, own, PreferredDir),
        FindUnderVolterOnDevice(disk, own)>>
        \o FindUnderVolterOnAllFileSystems(disk)

-----------------------------------------------------------------------------
(* The same question without a search: which copies are within reach.      *)

(* Every directory on the way to dir is shown by the listing above it.     *)
Listed(v, dir) ==
  \A k \in 1 .. Len(dir) :
    \E i \in DOMAIN Read(v, SubSeq(dir, 1, k - 1)) :
      LET e == Read(v, SubSeq(dir, 1, k - 1))[i]
      IN  e.kind = "dir" /\ e.name = dir[k]

(* The volume has a copy at most MaxDepth directories deep, or in the      *)
(* preferred directory.                                                    *)
HasCopy(v) ==
  /\ v.mounts
  /\ \/ Opens(v, Append(PreferredDir, FileName))
     \/ \E dir \in DOMAIN v.list :
          /\ Len(dir) <= MaxDepth
          /\ Listed(v, dir)
          /\ \E i \in DOMAIN Read(v, dir) :
               Read(v, dir)[i].kind = "file" /\ Read(v, dir)[i].name = FileName

(* r is the copy the loader should take: a copy on its own volume before   *)
(* any other, beside the loader before the preferred directory and that    *)
(* before the rest; else one on the first partition that has any; and none *)
(* only when no copy is within reach.                                      *)
IsNearest(disk, knowsImage, knowsDir, r) ==
  LET vol(k)    == disk.volumes[k]
      own       == IF knowsImage THEN disk.own ELSE 0
      beside    == knowsDir /\ own # 0 /\ Opens(vol(own), Append(disk.dir, FileName))
      others    == {k \in DOMAIN disk.volumes :
                      HasCopy(vol(k)) /\ IsEfiSystemPartition(disk, k)}
  IN  IF own # 0 /\ (beside \/ HasCopy(vol(own)))
      THEN /\ r.volume = own
           /\ Last(r.path) = FileName /\ Opens(vol(own), r.path)
           /\ beside => r.path = Append(disk.dir, FileName)
           /\ ~beside /\ Opens(vol(own), Append(PreferredDir, FileName))
                => r.path = Append(PreferredDir, FileName)
      ELSE IF others = {} THEN r = Nowhere
      ELSE /\ r.volume \in others
           /\ \A k \in others : r.volume <= k
           /\ Last(r.path) = FileName /\ Opens(vol(r.volume), r.path)
=============================================================================
