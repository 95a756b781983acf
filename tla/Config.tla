------------------------------- MODULE Config -------------------------------
(***************************************************************************)
(* UnderVolter.ini (src/src/Config.c): where it is looked for, and what    *)
(* the keys of [Global] and of the CPU's profile come to.                  *)
(*                                                                         *)
(* A text is a sequence of lines "key = value", each with the header of    *)
(* the section it stands in: its name, and whether there are blanks before *)
(* the name in the brackets.  A text that ReadIniFile refuses (empty, over *)
(* a megabyte, UTF-16, a NUL) is the empty one; one of comments only is a  *)
(* line whose key nobody asks for.  A value is a number of at most 32      *)
(* bits, Wide, a number of 33 to 63 bits, the name of an architecture, or  *)
(* Junk: anything that does not parse, is negative or is larger still.     *)
(***************************************************************************)
EXTENDS Volumes

CONSTANTS Junk, Wide, Absent

ASSUME ConfigAssumption ==
  {Junk, Wide, Absent} \cap Nat = {} /\ Wide \notin {Junk, Absent}

NoText == << >>

IniName == "UnderVolter.ini"

FallbackDirs ==
  << <<"EFI", "OC", "Drivers">>, <<"EFI", "OC", "Tools">>, <<"EFI", "OC">>,
     <<"EFI", "Microsoft", "Boot">>, <<"EFI", "Boot">>, <<"EFI">>, << >> >>

(* The files TryOpenIniOnRoot finds on volume v, the first of which it     *)
(* takes: beside the image, then the fixed places.                         *)
Openable(v, imageDir) ==
  SelectSeq(<<Append(imageDir, IniName)>>
              \o [i \in DOMAIN FallbackDirs |-> Append(FallbackDirs[i], IniName)],
            LAMBDA path : Opens(v, path))

(* What ReadIniFile opens, if anything, on the volume of the image and on  *)
(* the others in the order of their handles.                               *)
IniFiles(disk, image) ==
  LET order == <<image.volume>>
                 \o SelectSeq([k \in DOMAIN disk.volumes |-> k], LAMBDA k : k # image.volume)
      Opened(v) == LET paths == Openable(v, Front(image.path))
                   IN  IF paths = << >> THEN << >> ELSE <<EntryAt(v, paths[1])>>
  IN  FlattenSeq([i \in DOMAIN order |-> Opened(disk.volumes[order[i]])])

(* The first of them ends the search, whatever is in it.                   *)
ReadIniFile(files) ==
  IF files = << >> \/ files[1].kind # "file" THEN NoText ELSE files[1].text

(* IniSectionMatch: blanks before the header's name are passed over, those *)
(* before the wanted name are not.                                         *)
IniSectionMatch(header, wanted) ==
  ~wanted.padded /\ header.name = wanted.name

Section(name) == [name |-> name, padded |-> FALSE]

(* The value of the first line that matches, in any section of the name.   *)
IniFindValue(text, section, key) ==
  LET at == SelectInSeq(text, LAMBDA l : IniSectionMatch(l.section, section) /\ l.key = key)
  IN  IF at = 0 THEN Absent ELSE text[at].value

IniGetInt(text, section, key, default) ==
  LET value == IniFindValue(text, section, key)
  IN  IF value \in Nat THEN value ELSE default

(* A flag that is there is on when it is 1; junk switches it off.          *)
Flag(text, key, default) ==
  LET value == IniFindValue(text, Section("Global"), key)
  IN  IF value = Absent THEN default ELSE value = 1

(* The number of runs alone keeps 63 bits.                                 *)
Runs(text) ==
  LET value == IniFindValue(text, Section("Global"), "SelfTestMaxRuns")
  IN  IF value \in Nat \cup {Wide} THEN value ELSE 0

(* (UINT8) and (BOOLEAN) casts.                                            *)
Byte(n) == n % 256

(* The globals before LoadAppSettings and what it makes of the text.       *)
Defaults ==
  [gIniFound |-> FALSE, gAppQuietMode |-> FALSE, gEmergencyExit |-> TRUE,
   gEnableSaferAsm |-> TRUE, gSelfTestMaxRuns |-> 0]

LoadAppSettings(text) ==
  IF text = NoText THEN Defaults ELSE
  [gIniFound |-> TRUE,
   gAppQuietMode    |-> Byte(IniGetInt(text, Section("Global"), "QuietMode", 0)) # 0,
   gEmergencyExit   |-> Flag(text, "EmergencyExit", TRUE),
   gEnableSaferAsm  |-> Flag(text, "EnableSaferAsm", TRUE),
   gSelfTestMaxRuns |-> Runs(text)]

(* FindProfileSection: the section of the first line that names the        *)
(* architecture, else [Profile.Generic].                                   *)
FindProfileSection(text, arch) ==
  LET at == SelectInSeq(text, LAMBDA l : l.key = "Architecture" /\ l.value = arch)
  IN  IF at = 0 THEN Section("Profile.Generic") ELSE text[at].section

(* ApplyComputerOwnersPolicy, for one of the keys of a profile.            *)
ForcedRatio(text, arch) ==
  Byte(IniGetInt(text, FindProfileSection(text, arch), "ForcedRatioForPCoreCounts", 0))
=============================================================================
