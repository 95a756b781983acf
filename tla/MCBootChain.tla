---------------------------- MODULE MCBootChain -----------------------------
(***************************************************************************)
(* Instances of BootChain for TLC.  Five families of initial states, each  *)
(* with everything in one place and one or few cases in the others: all    *)
(* boot entries and orders, for a disk without UnderVolter.efi; pending    *)
(* resets; all disks for the search of the image; all disks for the search *)
(* of the INI file; all settings and processors.                           *)
(***************************************************************************)
EXTENDS BootChain

CONSTANTS ArchA, ArchB, ArchU    \* architectures: two of the table, "Unknown"

Entry(active, good, place, file) ==
  [active |-> active, good |-> good, place |-> place, file |-> file]

MCEntries ==
  { Entry(TRUE, TRUE, "own", "self"), Entry(TRUE, TRUE, "short", "self"),
    Entry(TRUE, TRUE, "own", "bootx64"), Entry(TRUE, TRUE, "own", "none"),
    Entry(TRUE, TRUE, "other", "os"), Entry(TRUE, TRUE, "own", "os"),
    Entry(FALSE, TRUE, "other", "os"), Entry(TRUE, FALSE, "other", "os") }

MCEntrySets == [Numbers -> MCEntries]

(* The loader's own entry and the one of a system.                         *)
PlainEntries ==
  [n \in Numbers |-> IF n = 0 THEN Entry(TRUE, TRUE, "own", "self")
                     ELSE Entry(TRUE, TRUE, "other", "os")]

MCOrders ==
  {s \in UNION {[1 .. k -> Numbers] : k \in 0 .. Cardinality(Numbers)} :
     \A i, j \in DOMAIN s : s[i] = s[j] => i = j}

-----------------------------------------------------------------------------
Exe == FileEntry("UnderVolter.efi", << >>)
Ini(text) == FileEntry("UnderVolter.ini", text)

Line(section, k, value) == [section |-> Section(section), key |-> k, value |-> value]

PlainText == << Line("Global", "QuietMode", 0) >>

(* A volume with an \EFI\Boot, an \EFI\OC\Drivers and a long branch, from  *)
(* the listings that vary.                                                 *)
Volume(root, boot, drivers, deep4, deep5) ==
  [mounts |-> TRUE,
   list |->
     (<< >> :> (root \o <<DirEntry("a"), DirEntry("EFI")>>)
      @@ <<"EFI">> :> <<DirEntry("Boot"), DirEntry("OC")>>
      @@ <<"EFI", "Boot">> :> boot
      @@ <<"EFI", "OC">> :> <<DirEntry("Drivers")>>
      @@ <<"EFI", "OC", "Drivers">> :> drivers
      @@ <<"a">> :> <<DirEntry("gone"), DirEntry("b")>>
      @@ <<"a", "b">> :> <<DirEntry("c")>>
      @@ <<"a", "b", "c">> :> <<DirEntry("d")>>
      @@ <<"a", "b", "c", "d">> :> (deep4 \o <<DirEntry("e")>>)
      @@ <<"a", "b", "c", "d", "e">> :> deep5)]

PlainVolume(text) ==
  [mounts |-> TRUE, list |-> (<< >> :> <<DirEntry("EFI")>> @@ <<"EFI">> :> <<DirEntry("Boot")>>
                              @@ <<"EFI", "Boot">> :> <<Exe, Ini(text)>>)]
Unmounted == [mounts |-> FALSE, list |-> << >> :> <<Exe>>]
NoEfi     == [mounts |-> TRUE, list |-> << >> :> <<Exe>>]

(* A disk is identified by what makes it up: the contents of the places of *)
(* its two volumes, the volume the loader is on, and the INI text.         *)
Nothing == << >>

Content(c, text) ==
  CASE c = "none"  -> Nothing
    [] c = "exe"   -> <<Exe>>
    [] c = "ini"   -> <<Ini(text)>>
    [] c = "bad"   -> <<Ini(NoText)>>
    [] c = "both"  -> <<Exe, Ini(text)>>
    [] c = "exebad" -> <<Exe, Ini(NoText)>>
    [] c = "dir"   -> <<DirEntry("UnderVolter.efi")>>
    [] c = "inidir" -> <<DirEntry("UnderVolter.ini")>>
    [] c = "error" -> <<ReadError>>
    [] c = "after" -> <<ReadError, Exe>>

VolumeOf(v, text) ==
  CASE v[1] = "unmounted" -> Unmounted
    [] v[1] = "noEfi"     -> NoEfi
    [] v[1] = "plain"     -> PlainVolume(text)
    [] OTHER -> Volume(Content(v[1], text), Content(v[2], text), Content(v[3], text),
                       Content(v[4], text), Content(v[5], text))

MCDiskOf(id) ==
  [volumes |-> <<VolumeOf(id.first, id.text), VolumeOf(id.second, id.text)>>,
   own |-> id.own, dir |-> <<"EFI", "Boot">>]

Id(first, second, own, text) == [first |-> first, second |-> second, own |-> own, text |-> text]

(* Volumes of the search: each place has a copy or not, hides it behind a  *)
(* read error or has a directory of that name.                             *)
SearchVolumes ==
  ({"none"} \X {"none", "exe", "after"} \X {"none", "exe"}
     \X {"none", "exe", "dir"} \X {"none", "exe"})
  \cup ({"error"} \X {"none", "exe"} \X {"none", "exe", "dir"} \X {"exe"} \X {"none"})

EmptyVolume == <<"none", "none", "none", "none", "none">>

OtherVolumes ==
  { <<"none", "none", "none", "exe", "none">>, <<"none", "none", "exe", "none", "none">>,
    EmptyVolume, <<"noEfi">>, <<"unmounted">> }

SearchDisks == {Id(v, w, own, PlainText) : v \in SearchVolumes, w \in OtherVolumes, own \in 0 .. 2}

(* Volumes for the search of the INI file: beside the image, in a fixed    *)
(* place, on the other volume; readable or not.                            *)
IniVolumes ==
  {"none", "ini"} \X {"exe", "exebad", "both"} \X {"none", "ini", "inidir"} \X {"none"} \X {"none"}

IniDisks == {Id(v, w, 1, PlainText) : v \in IniVolumes,
               w \in {v \in IniVolumes : v[2] = "exe" /\ v[3] # "inidir"}}

PlainDisk(text) == Id(<<"plain">>, <<"unmounted">>, 1, text)
EmptyDisk       == Id(<<"unmounted">>, <<"unmounted">>, 0, PlainText)

-----------------------------------------------------------------------------
MCCpuTable == << [model |-> 0, stepping |-> 0, uArch |-> ArchU],
                 [model |-> 1, stepping |-> 1, uArch |-> ArchA],
                 [model |-> 1, stepping |-> 2, uArch |-> ArchB],
                 [model |-> 189, stepping |-> 1, uArch |-> ArchA] >>

Cpu(model, stepping) == [model |-> model, stepping |-> stepping]
MCCpus == {Cpu(1, 1), Cpu(1, 2), Cpu(1, 3), Cpu(0, 0), Cpu(189, 1)}

Machine(cpu, conIn, mpServices, idtEntries, disk) ==
  [cpu |-> cpu, conIn |-> conIn, mpServices |-> mpServices, idtEntries |-> idtEntries,
   disk |-> disk]

GlobalTexts ==
  { << Line("Global", "QuietMode", q), Line("Global", "EmergencyExit", e),
       Line("Global", "EnableSaferAsm", a), Line("Global", "SelfTestMaxRuns", t) >> :
      q \in {0, 1, 256}, e \in {0, 1, Junk}, a \in {0, 1}, t \in {0, 1} }
  \cup { << Line("Global", "QuietMode", Wide), Line("Global", "SelfTestMaxRuns", Wide) >>,
         << Line("Global", "# comment", Junk) >> }

Named(section, arch) == Line(section, "Architecture", arch)
Ratio(section, n)    == Line(section, "ForcedRatioForPCoreCounts", n)

ProfileTexts ==
  { << Named("Profile.A", ArchA), Ratio("Profile.A", 40),
       Named("Profile.B", ArchB), Ratio("Profile.B", 300) >>,
    << Ratio("Profile.B", 30), Named("Profile.B", ArchB), Ratio("Profile.Generic", 25) >>,
    << Ratio("Profile.A", Junk), Ratio("Profile.A", 44), Named("Profile.A", ArchA) >>,
    << [section |-> [name |-> "Profile.A", padded |-> TRUE], key |-> "Architecture",
        value |-> ArchA], Ratio("Profile.A", 40) >> }

SettingsMachines ==
  { Machine(cpu, conIn, TRUE, idtEntries, PlainDisk(text)) :
      cpu \in MCCpus, conIn \in BOOLEAN, idtEntries \in {14, 15}, text \in GlobalTexts }
  \cup { Machine(cpu, TRUE, mp, 256, PlainDisk(text)) :
           cpu \in MCCpus, mp \in BOOLEAN, text \in ProfileTexts }

PlainMachine(disk) == Machine(Cpu(1, 1), TRUE, TRUE, 256, disk)
LunarMachine(disk) == Machine(Cpu(189, 1), TRUE, TRUE, 256, disk)

LoaderMachines == {PlainMachine(EmptyDisk)}
ResetMachines  == {LunarMachine(PlainDisk(PlainText)), PlainMachine(PlainDisk(PlainText))}
SearchMachines == {LunarMachine(d) : d \in SearchDisks}
IniMachines    == {LunarMachine(d) : d \in IniDisks}

MCDisks ==
  SearchDisks \cup IniDisks \cup {EmptyDisk}
    \cup {PlainDisk(text) : text \in GlobalTexts \cup ProfileTexts \cup {PlainText}}

PlainLoader ==
  /\ entries = PlainEntries /\ bootOrder = <<0, 1>> /\ bootCurrent = 0
  /\ ownName = "loader"

MCInit ==
  \/ machine \in LoaderMachines /\ setupWork = 0 /\ keyWork = 0 /\ ChainInit
  \/ machine \in ResetMachines /\ PlainLoader /\ knows = "file" /\ ChainInit
  \/ machine \in SearchMachines /\ setupWork = 0 /\ keyWork = 0 /\ bootNext = NoNumber
     /\ PlainLoader /\ knows \in {"nothing", "image"} /\ ChainInit
  \/ machine \in IniMachines /\ setupWork = 0 /\ keyWork = 0 /\ bootNext = NoNumber
     /\ PlainLoader /\ knows = "file" /\ ChainInit
  \/ machine \in SettingsMachines /\ setupWork = 0 /\ keyWork = 0 /\ bootNext = NoNumber
     /\ PlainLoader /\ knows = "file" /\ ChainInit

MCSpec == MCInit /\ [][ChainNext]_cvars /\ Fairness
=============================================================================
