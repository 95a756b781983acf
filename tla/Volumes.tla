------------------------------ MODULE Volumes -------------------------------
(***************************************************************************)
(* The file systems as the loader (src/src/Loader.c) and the configuration *)
(* (src/src/Config.c) see them through EFI_SIMPLE_FILE_SYSTEM_PROTOCOL.    *)
(*                                                                         *)
(* A path is the sequence of names from the root.  A volume is a record:   *)
(* `mounts`, whether OpenVolume succeeds, and `list`, a function from its  *)
(* directories to what Read returns of each, in order: files, directories, *)
(* and where the medium is bad an error.  What comes after an error is on  *)
(* the disk, and can be opened by its name, but no listing shows it.       *)
(***************************************************************************)
EXTENDS Naturals, Sequences, SequencesExt

FileEntry(name, text) == [kind |-> "file", name |-> name, text |-> text]
DirEntry(name)        == [kind |-> "dir", name |-> name, text |-> << >>]
ReadError             == [kind |-> "error", name |-> "", text |-> << >>]

NoPath == << >>

(* A sequence, of whatever names.                                          *)
IsPath(path) == path \in Seq(Range(path))

(* A tree of directories with their listings.                              *)
IsVolume(v) ==
  /\ << >> \in DOMAIN v.list
  /\ \A dir \in DOMAIN v.list :
       /\ IsPath(dir)
       /\ \A k \in 1 .. Len(dir) : SubSeq(dir, 1, k) \in DOMAIN v.list
       /\ v.list[dir] \in Seq(Range(v.list[dir]))

(* The entries that Dir->Read returns before it fails or ends.             *)
Read(v, dir) ==
  LET l   == v.list[dir]
      bad == SelectInSeq(l, LAMBDA e : e.kind = "error")
  IN  SubSeq(l, 1, IF bad = 0 THEN Len(l) ELSE bad - 1)

(* Root->Open(path) succeeds: for a directory as well as for a file.       *)
Opens(v, path) ==
  /\ v.mounts
  /\ path # NoPath /\ Front(path) \in DOMAIN v.list
  /\ \E i \in DOMAIN v.list[Front(path)] :
       LET e == v.list[Front(path)][i] IN e.kind # "error" /\ e.name = Last(path)

(* What Open(path) returns.                                                *)
EntryAt(v, path) ==
  LET l == v.list[Front(path)]
  IN  l[SelectInSeq(l, LAMBDA e : e.kind # "error" /\ e.name = Last(path))]

(* `first` of a sequence of attempts that is not `none`.                   *)
FirstOf(attempts, none) ==
  LET at == SelectInSeq(attempts, LAMBDA a : a # none)
  IN  IF at = 0 THEN none ELSE attempts[at]
=============================================================================
