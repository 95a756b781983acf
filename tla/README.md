# A specification of UnderVolter

UnderVolter is a UEFI application that runs before the operating system. It
reads an INI profile, programs voltages, current limits, power limits and their
locks on every processor of the machine, and, if asked to, patches the
firmware's Setup variable and enrolls Secure Boot keys. A separate loader starts
it and then the operating system the user wanted.

Almost nothing of this can be tried out in a unit test: the registers belong to
real silicon, a wrong lock lasts until the next reset, and the interesting
failures need two processors, two boots, or a firmware that misbehaves. This
directory holds TLA+ modules for those parts, TLC configurations that check them
on small instances, and proofs that TLAPS checks for all instances.

Paths below are relative to the repository. Line numbers of single definitions
are in `PROJECT.json` under `map`.

## 1. Inventory

| Component | Source | State it keeps | Operations | What is hard about it |
|---|---|---|---|---|
| Boot flow | `src/UnderVolter.c`, `src/CpuInfo.c` | `gPlatform`, `gIniFound`, `gActiveCpuData` | `UefiMain`: settings, patches, keys, CPU detection, discovery, policy, self test, cleanup | two of the steps may reset the machine; every one of the many early returns must give the interrupt table and the platform record back |
| Platform and policy | `src/Platform.c` | `PLATFORM`, `gCorePtrs[]`, `gNumCores` | `DetectPackages`, `ProbePackages`, `ProbeCores`, `ApplyPolicy` and its handlers | a policy spread over many processors, any of which may fail, time out or freeze half way; locks are irrevocable |
| Dispatcher | `src/MpDispatcher.c` | the MP event, the GS base | `RunOnPackageOrCore`, `RunOnAllProcessors`, `ProcessorIgnite` | firmware timers, events that nobody signals, a foreign GS base left behind |
| Hardware access | `src/HwAccess.c`, `src/InterruptHook.c`, `src/ASMx64/HwIntrinsicsX64.asm` | `gFatalErrorAsserted`, `gMCHBAR`, the backup IDT | install and remove the overrides; MSR and MMIO access with fault capture | a fault freezes one processor while others wait for it; handlers must not outlive the image |
| OC mailbox | `src/CpuMailboxes.c`, `src/OcMailbox.c` | the mailbox structure (`b`, `status`, `cfg`) | `OcMailbox_ReadWrite` | an asynchronous partner: late answers, data that move after the busy flag clears, a unit that hangs |
| V/F curve | `src/VfCurve.c`, `src/FixedPoint.c`, `src/VoltTables.c` | `DOMAIN` of each package | probe, edit, program, lock | read-modify-write by every processor; two unit systems that do not correspond one to one; index shift of one; a status left from an earlier call |
| Power limits | `src/PowerLimits.c`, `src/TimeWindows.c` | six limit registers, cTDP | set limit, clamp, lock | scaling, bounds that may be absent, a second write for the clamp bits, locks in another handler |
| Turbo ratios | `src/TurboRatioLimits.c` | two MSRs | program the ratio of the slots in use | written by every processor; the status of the read-back is dropped by the caller |
| NVRAM patches | `src/NvramSetup.c` | the firmware's Setup variable, BootNext | read, patch, write, verify, reset | survives resets; partial writes; endless reboot loops |
| Secure Boot | `src/SecureBootEnroll.c` | db, dbx, KEK, PK, DeployedMode, BootNext | SelfEnroll, `.auth` enrollment, reboot | a sequence of writes that power loss or the firmware can cut anywhere; PK ends Setup Mode |
| Self test | `src/SelfTest.c`, `src/ASMx64/CpuStressorAvx2.asm` | `gSelfTestErrorCnt` | AVX2 kernel on all processors | a shared counter, waiting for all, exit condition of the kernel |
| Trace log | `src/MiniLog.c` | ticket and serving counters | `MiniTrace`, `MiniTraceEx` | a lock taken by all processors |
| Loader | `src/Loader.c` | BootNext, BootOrder, BootCurrent | find and run UnderVolter, start the next boot entry, fall back | must take the nearest copy of the file, neither skip an entry nor start itself for ever |
| Configuration | `src/Config.c`, `src/IniHelpers.c` | the INI text, application settings | find, read and interpret the profile | many places to look in; the first file that opens counts; values cut to 8 or 16 bits |
| CPU data | `src/CpuData.c`, `src/CpuDataVR.c`, `src/CpuInfo.c` | model tables | `DetectCpu`, `ProbeBclk` | the very stepping before the model |
| Prompts | `src/SafetyPrompts.c` | - | unknown-CPU question, countdown | quiet mode answers one with no and the other with yes |
| Console, statistics, delays | `src/UiConsole.c`, `src/ConsoleUi.c`, `src/PrintStats.c`, `src/DelayX86.c` | screen, TSC frequency | - | - |
| Tools | `build.ps1`, `run-qemu.ps1`, `signer/`, `data/other-tools/`, `tests/` | - | - | - |

How they meet: the loader finds `UnderVolter.efi`, starts it and waits. `UefiMain` calls the components one after the other on the boot
processor. `ApplyPolicy` sends handlers to processors through the dispatcher;
handlers find their package through `gCorePtrs[]`, talk to the power control unit
through the OC mailbox and to the registers through `HwAccess`, and all of them
trace through the ticket lock. Between boots only firmware variables, the ESP
and, across a warm reset, the lock bits' absence carry over: hence the
multi-boot models.

## 2. The modules

| Module | Models | Composes |
|---|---|---|
| `MiniLog` | the ticket lock | |
| `Platform` | discovery, `ApplyPolicy`, the dispatcher's single calls, faults, cleanup | implements `PolicyBarrier` |
| `PolicyBarrier` | what `ApplyPolicy` promises, abstractly | |
| `SecureBootEnroll` | key enrollment over many boots | |
| `NvramSetup` | Setup patches over many boots | |
| `SelfTest` | self test, `RunOnAllProcessors`, `ProcessorIgnite` | |
| `Volumes` | file systems as listings that may break off (operators only) | |
| `Loader` | boot entries: BootNext, the BootOrder loop, the fallback, over two boots | |
| `LoaderSearch` | the search for `UnderVolter.efi` (operators only) | extends `Volumes` |
| `Config` | the search for the INI file, settings, the choice of the profile (operators only) | extends `Volumes` |
| `UefiMain` | one start of the program, with every way out | extends `Config` |
| `BootChain` | the machine from power-on to the operating system | `Loader`, `LoaderSearch`, `UefiMain`; implements `Loader` |
| `CpuMailbox` | one mailbox call against the power control unit | |
| `FixedPoint` | the four voltage conversions (operators only) | |
| `VfCurve` | one voltage domain and the turbo ratios: probe, edit, program, lock, probe | extends `FixedPoint`; takes the outcomes of a call from what `CpuMailbox` shows |
| `PowerLimits` | the limit registers of one package | |
| `MC...` | the instances for TLC | |
| `...Proofs` | theorems about `MiniLog`, `Platform`, `SecureBootEnroll`, `NvramSetup`, `BootChain`, `SelfTest`, `PowerLimits`; `OcMailboxProofs` has those about `FixedPoint`, `VfCurve` and `CpuMailbox` | |

### MiniLog

`AtomicIncrementU32` is `lock inc` followed by a load, so `Increment` and
`ReadTicket` are separate actions. `rank` is a history variable: the place in the
queue that the increment gave. The result is a surprise: mutual exclusion and
first come, first served hold in spite of the torn ticket (a ticket can only be
too high, and a number too high is served later or never), but progress does not.
`TimeOut` is the dispatcher's timer: an application processor of `Slow` may vanish at
any instruction of a trace, with the lock or with a place in the queue. Who is left
keeps its order, and spins for ever.

### Platform and PolicyBarrier

One step of `Platform` is one register of one handler on one processor. The order
of the loops is the code's: voltages on every processor (a domain's registers in
`ProgramVFOverridesAndOCRatios`), then `ProgramPowerLimits` and
`ProgramPowerLimits_Stage2` on the first processor of every package, then
`ProgramCoreLocks` on every processor, `ProgramPackageLocks_Stage2` on every
package, and a probe. A handler may end at each register with an error
(`HandlerError`), the one-second timer of `StartupThisAP` (`ApTimeout`) or a fault
that freezes its processor (`Fault`); `RunOnPackageOrCore` may refuse a number.
Disabled processors are null entries of `gCorePtrs[]`. "Volt" stands for everything
that goes through the OC mailbox; PRatio and ERatio count as programmed once
written, since their caller ignores the read-back.

`PolicyBarrier` is the promise in four lines: items are programmed while nothing
is locked, and locks are set only when everything asked for is programmed.

### SecureBootEnroll and NvramSetup

Both run once per boot and are modelled over many boots. A variable holds a set of
certificates, or a short sequence of bytes. The firmware decides about every write:
store it, refuse it, say EFI_SUCCESS and ignore it (for Setup: keep back any of the
bytes). In a *flaky* boot any read may fail. `PowerCycle` cuts between any two steps.
`Conflict` rejects a patch list with two values for one byte, `Outlying` one with an offset behind
the end of the variable (section 4). During a warm reset the firmware may restore what Setup held before, or its
defaults (`MaxRestores`). After a boot that went on, the user may have restored keys or defaults.

### SelfTest

`ProcessorIgnite` and the kernel on every processor, each instruction that another
processor can see as one step. The number of inner iterations of a run is left out:
the kernel's registers are local. `mismatches` is a history set of <<processor, run>>: the
comparisons that failed. A glitch parts the two chains of a processor; after
a mismatch the shadow registers hold comparison masks, so the chains stay apart.

### BootChain: Loader, LoaderSearch, Config, UefiMain

`Loader` has the boot entries. An entry is what the code's tests can tell apart: active,
readable, on the loader's own device (by its full path or in the short form), and what its
file path names. Starting an image ends in failure, in EFI_SUCCESS, in a running system or
in a crash that resets the machine (`ImageEnds`), unless the image is the loader's own file:
then `UefiMain` of the loader runs once more inside the first (`StartsItself`), with the same
BootCurrent and BootOrder, and may come to the same entry again. The copies need no stack,
since each returns EFI_SUCCESS and ends the one that waits for it. In `Loader` the run of
UnderVolter is one step, `RunUnderVolter`.

`BootChain` puts the program in the place of that step. `StartUnderVolter` searches with
`LoaderSearch` and loads what it found; then the steps of `UefiMain` run, one per call that
`UefiMain` makes; a way out hands the control back, a reset or a frozen processor takes it
away; a loader that starts itself searches again (`LoaderAgain`). `LoaderSpec` says that the
loader sees nothing but its one step.

A volume (`Volumes`) is a function from directories to what `Read` returns of them.
An entry behind a read error can still be opened by name, which is why the fixed places and
the recursive search do not always find the same file. `FindFileRecursive` is the
depth-first search with its depth limit; `IsNearest` asks the same question without
searching. `IsDisk` says what a disk is: directories are paths of whatever names, and with a
directory the ones above it exist.

In `UefiMain` each call has all the outcomes that the module of the component allows:
`ApplyNvramSetupPatches` and `EnrollSecureBootKeys` return or reset the machine (and then
have less left to do, which is what `nvram` and `secureboot` check); discovery, policy and
self test succeed, fail, or freeze the machine. `idt` is the firmware's descriptor table,
`gBackupIDT` the image's copy; every start has fresh globals. The two decisions of the user
are history (`key`).

An INI text (`Config`) is a sequence of lines, each with its section header, a key and a
value that parses or does not. `LoadAppSettings` and `ForcedRatio` keep the code's casts to
BOOLEAN and to 8 bits and the different treatment of junk: a number falls back to its
default, a flag goes off. A number of more than 32 bits is junk to all keys but
`SelfTestMaxRuns`. A file that holds nothing but comments (or a byte-order mark) is an INI file that was found, without a
key anybody asks for; a file the reader refuses is none (`NoText`).

### CpuMailbox, VfCurve, FixedPoint

The power control unit is external: it executes one request at a time, for any length
of time, and may let the data words move after it has cleared the busy flag. A request
written while another one executes may be dropped, or drop the older one. `VfCurve` then
takes each call as one step with the three outcomes `CpuMailbox` allows: accepted,
rejected with a nonzero `box.status`, failed without a verdict. `FixedPoint` gives the
tables of `VoltTables.c` by their range, the rounding of their entries and the five
codes they list out of order; every entry of the source tables was compared with the
formulas.

The turbo ratios are part of `VfCurve`, because `ProgramVFOverridesAndOCRatios` writes them
first on every processor: the slots in use get the ratio asked for, the unused ones (0 or
255) stay, and a register that does not take a write changes nothing but a status
that nobody looks at.

### PowerLimits

A half of a register is enable, power, window and clamp. The window is the field as the code
writes it: for the pair (X, Y) that `FindTauConsts` finds, X << 23 and Y << 17, i.e.
`Field(w) == 64 * (w % 4) + w \div 4` of place w = 4 * Y + X of the table. The firmware's
`PkgMaxTau` is one of the facts (`maxTau`), which the code reads and never uses. The limits of a register are
one write, its clamp bits a second one, its lock a third in a later handler, and
between any two the processor may freeze. Units, field widths and the table of time
windows (`Taus`) are constants; that the table is sorted is an assumption, which TLC
evaluates for the table of the run. The current of PL4 is multiplied by 8 in the width of
the code (`% (MAX_POWAH + 1)`).

## 3. Runs, bounds and what they show

| Run | Configuration | Bounds | Properties |
|---|---|---|---|
| `minilog` | `MiniLog.cfg` | 3 processors, two of them slow, 6 requests | `LockInv`, `MutualExclusion`, `NoOvertaking` |
| `minilog_progress` | `MiniLog_progress.cfg` | 2 processors, 3 requests | `EveryTicketServed` is **violated** |
| `platform` | `Platform.cfg` | 3 processors, 2 packages, tables of 2 by 2, 4 policies, 3 sets of boot locks | `PolicyInv`, `SuccessIsComplete`, `HandlerHasItsRecord`, `BarrierSpec`, `ProgramEnds` |
| `secureboot` | `SecureBoot.cfg` | 3 certificates, 5 sections, 2 flaky boots, 2 power cycles | `EnrollInv`, `PkSealsComplete`, `NoKeyIsLost`, `DeployedOnlyWhenTrusted`, `RebootLoopEnds` |
| `nvram` | `Nvram.cfg` | bytes 0..2, variables of 0, 2 and 3 bytes, 6 patch lists, 1 flaky boot, 1 restore, 1 power cycle | `PatchInv`, `OnlyPatchedBytes`, `RebootLoopEnds` |
| `selftest` | `SelfTest.cfg` | boot processor and up to 2 others, 2 runs, 2 glitches | `SelfTestInv`, `ReportIsFinal`, `ReportIsHonest`, `TestEnds` |
| `chain` | `BootChain.cfg` | 2 boot entries of 8 kinds, every BootOrder, over 600 disks, INI texts with 4 kinds of profiles, 5 processors, 1 reset for each stage, 1 further boot | `ChainInv`, `NoEntryIsForgotten`, `NoSelfLoop`, `IdtGivenBack`, `ProgrammedOnlyOnWish`, `NearestCopy`, `LoaderSpec`, `ChainEnds` |
| `mailbox` | `CpuMailbox.cfg` | 3 calls, 3 spins, 3 retries | `MailboxInv`, `AnswerIsOurs`, `StatusIsVerdict`, `CallReturns` |
| `vfcurve` | `VfCurve.cfg` | 2 points in the record, 0..3 in the unit, 2 processors; every offset, target and held code; ratio slots used or not, writable or not | `CurveInv`, `TableIsWhole`, `PointsAsWanted`, `AskedIsWritten`, `UntouchedStays` |
| `vf_targets` | `VfCurve_targets.cfg` | the same | `DocumentedTargets` is **violated** |
| `power` | `PowerLimits.cfg` | 5-bit power fields, windows up to Y = 2, 2 processors | `PowerInv`, `LimitsInForce`, `LocksAsAsked` |
| `power_pp0` | `PowerLimits_pp0.cfg` | the same | `PP0BoundsApplied` is **violated** |

Why the bounds suffice. *minilog*: an overtaking needs two processors, and the third
shows that the queue stays ordered; after six requests every processor has been
through twice; one processor is never ended, so that a queue with gaps still has a
successor. *platform*: two packages with one of them owning two processors is the
least in which "first processor of a package", holes, package order against processor
order and tables that are too small all occur; the proofs remove the bound.
*secureboot*: three certificates (the vendor's, the owner's, ours) are the parties
the code distinguishes; one flaky boot can mislead a check, the second shows that the
recovery boot can be misled too. *nvram*: three bytes are one patched, one not, and one
outside the shorter variable. *chain*: with two entries every position of BootCurrent in
BootOrder occurs, also none. The initial states are five families, each with everything in
one part and one or few cases in the others, because the parts meet only in the file that
was found and in the step at which the program ends: all entries and orders; pending resets;
all disks for the search of the program (each of the five places of a volume has a copy, a
directory of that name, a read error, or nothing; one level below the depth limit); all disks
for the search of the INI file; all settings, profiles and processors. The proofs remove
the bounds. *mailbox*: a late answer needs the call before and the
call after; the proofs remove the bound. *vfcurve*: tables shorter than the record, as
long and longer; the conversions are checked over their whole input, not over a sample.
*power*: the fields are narrow so that every register is cut, bounded and unencodable
in some profile; the proofs remove the widths. For *chain* and *vfcurve* too, the theorems
need no bound.

Deadlock checking is off in all runs: all of these programs end (or freeze).

Each property has a mutant in `PROJECT.json`, a definition changed as a plausible bug
would change it, which the property must refute. The mutants stand before the
definition they replace and are marked as such.

### Fairness

* `Platform`: weak fairness of the next-state relation. The boot processor runs, and the
  firmware's timer fires (`StartupThisAP` is called with 1 000 000 microseconds). No fairness for
  any particular outcome; a frozen boot processor stops the machine, as `ProgramEnds` says.
* `SecureBootEnroll`, `NvramSetup`: the code runs on and the firmware comes back from a
  warm reset, in `NvramSetup` finitely often with restored values. Power cycles are not fair. Cancelling a countdown is never assumed.
* `SelfTest`: every processor executes its instructions.
* `BootChain`: the loader and the program run on, images other than the loader come to one of
  their ends, and the firmware comes back from a reset. Nobody has to restart a running system,
  and nothing keeps a loader that starts itself from doing so again: `ChainEnds` is therefore
  stated for boot variables in which every entry that loads the loader is one it can tell for
  its own (`Recognisable`). Without that condition TLC finds the endless recursion, and with
  it the mutant without the self-loop test (`StartableAnywhere`) is refuted.
* `CpuMailbox`: the driver runs on. The unit has *no* fairness: it may hang.
* `MiniLog` (`FairSpec`): a processor inside the trace routines runs on; none is made to
  enter.
* `VfCurve` and `PowerLimits` check safety only, under `Spec`.

## 4. Disagreements found

1. `minilog_progress`. `src/MiniLog.c:62-63` says a ticket is claimed atomically. It is
   not: two processors can hold the same ticket, and the lower one is never served. All
   later traces then spin for ever. Only in builds with `ENABLE_MINILOG_TRACING`.
2. `vf_targets`. `src/FixedPoint.c:124` and `src/Config.c:586` accept 250 mV; the table
   starts at 251 mV, and the error value is programmed as a voltage of nearly 4 V.
3. `power_pp0`. `src/PowerLimits.c:693` bounds PP0 from above with the *minimum* power.

Smaller ones, without a run: `CpuStressorAvx2.asm:6-7` announces 0x10000000 inner
iterations per run, but `esi` is loaded once, so all later runs have 2^32;
`CpuStressorAvx2.asm:4-5` against the exit test at 79-81; `SecureBootEnroll.c:681`
("reboot only after all three writes are confirmed") against 748-787 and the
regression test, which need db and KEK only; `README.md:1170` (the loader skips its own
entry "based on BootCurrent") against the device path comparison of `Loader.c:500-540`;
`README.md:700-701` (`Program_VF_Points_IACORE = 3`) against `Config.c:600`, where only 1
switches it on; `VfCurve.c:182` ("Legacy V/F programming always runs") against 258;
`VoltTables.c:253` (index `X*32+Y`) against `TimeWindows.c` (`Y*4+X`); `README.md:347` (PL4
times 256) against `PowerLimits.c:618` (times 8);
`SafetyPrompts.c:83` tells the user that the program exits "with no changes to the system",
when Setup patches and keys of the same run may be written already;
`InterruptHook.c:226` (all 256 entries are restored) against 236-238, which restore the three
that were patched, to the same effect.

Four more concern what a property of section 3 could have asserted, and are why it does not:

* Patches outside of the variable. `README.md:731` and the branch at `NvramSetup.c:366-369` skip
  such an offset with a diagnostic and apply the others; the loop before it, `NvramSetup.c:350-355`,
  has already rejected the whole list without a word, so the branch is never reached. The model does
  what the code does (`Outlying`), and `OnlyPatchedBytes` leaves the case open: it asks only what both
  readings promise.
* Target voltages. `Config.c:585-589` takes `TargetVolts` without setting the mode, and
  `OffsetVolts` sets mode 0 (573-576), but a target is meaningful in mode 1 only
  (`VfCurve.c:272`), which nothing in a profile selects. `AskedIsWritten` therefore says of a target that it stands in
  its field and that without an offset the mode is the one the firmware had left; in the usual
  mode 0 it is not in force.
* Windows and `PkgMaxTau`. `PowerLimits.c:72-73` and 645 announce the bound; lines 133 and 694 compute
  `xform_tau` with it and never use the result. `HoldsWindow` asks for the shortest window
  that is long enough only where the firmware names no bound or the register has none (PL3, PSys),
  and elsewhere only that the window is no longer than that one, which both readings meet.
  `PowerLimits.c:644` has the window in bits 23:17, while X is written at 24:23
  (`PowerLimits.c:166`, `TimeWindows.c:20-21`).
* Entries of the loader itself. `README.md:1171` says that they are never started. An entry in
  the short form HD(...) does not begin with the bytes of the loader's full path
  (`Loader.c:518`), and a loader that does not know its device path recognises none
  (`Loader.c:506`); `StartImage` then runs the loader again (656-660) with the same BootCurrent
  and BootOrder (678-725), and if no other entry starts, without end. `NoSelfLoop` and
  `ChainEnds` are stated for the entries the loader can recognise.

Things the model of the chain shows that a user may not expect: a *directory* named
`UnderVolter.efi` in one of the searched places hides a copy further on (opening it succeeds,
loading it does not, and the search is over); the same holds for an unreadable or empty
INI file; a profile header with blanks before its name is found by its `Architecture` but its
keys are not; a flag of `[Global]` with a value that does not parse is switched off, not left
at its default.

## 5. Proofs

Assumptions are only the named ASSUMEs on the constants (finite bounds are naturals, field
masks are not zero, special values differ from ordinary ones, the table of time windows is
sorted, disks are trees); TLC evaluates each of them in a run. Every invariant and every
action property that a passing run checks is also a theorem; what is left to TLC is at the
end of this section.

**MiniLogProofs.** `QueueInv` says that ranks in the queue are distinct and not yet served,
that a ticket is never *lower* than its owner's rank, and that whoever draws holds the
serving number. Mutual exclusion alone is not inductive: without the second part two
spinning processors could hold the serving number. Theorems `LockInvariant`,
`TraceMutualExclusion`, `TraceOrder`.

**PlatformProofs.** The invariant `PolicyInv` has four parts beside the types. `TableInv`: while loops run the
table is the one DetectPackages built, and the running processor is the first of the
processors left. `ProgressInv`: what each loop has left behind, e.g. all processors outside
`todo` have taken the voltages; at the end of the loops this is `AllProgrammed`.
`SealInv`: no lock of ours before the lock stages. `FinishInv`: what each of the two lock loops has
left behind, and that the calls go on only while no processor is frozen but the one that is
waited for; at "done" it gives every lock and no frozen processor. The proof has one lemma per action
(and one about the order `Before`, that a minimum of `todo` is unique). From it follow
`LocksAfterProgramming`, `NothingLost`, `HandlersHaveRecords`, `SuccessMeansAll`, and
`PolicyImplementsBarrier`: `Spec => BarrierSpec`, where a register step maps to
`Program` or `Lock` of that item and every other step stutters. These hold for any number
of processors and packages, any policy and any set of locks left by the firmware.

**OcMailboxProofs** has three parts.

*FixedPoint.* The tables are given by ranges and roundings, so the lemmas go from the code to
its millivolts and back: an encoder finds a listed code for every millivolt of its range
(`EveryOffsetListed`, `EveryTargetListed`), two codes with the same millivolts are neighbours,
and so an encoder is exact to 1 mV and a value that is read and written back moves by one code
at most (`OffsetRoundTrip`, `TargetRoundTrip`). Division is removed first, by
quotient and remainder: the prover is weak at it.

*VfCurve.* That a point is written where it was read, whatever fails on the way, needs the
record and the unit at the same time. `ProbeInv`: up to the edit the unit is as the firmware left
it, and the part of the table that has been read is in the record. `RecordInv`: after the edit the
record is a function of the policy and of what the unit held at boot, so that every processor
writes the same. `UnitInv`: each part of the unit holds what it held or its goal. `WriterInv`: a
processor that is past a write has made it. None of the four is inductive without the others:
the edit of a second processor would not be known to start from the same values. Theorems
`CurveInvariant`, `ProbeFindsTheTable`, `PointsReachTheirIndex`, `AskedReachesTheUnit`,
`UnaskedIsLeftAlone`, for any table, record size, profile and number of processors.

*CpuMailbox.* `ExchangeInv` relates the driver's program counter to the unit's job:
while the driver waits for an answer, the unit works on this call or has executed it;
equal readings of a word that is not "moving" can only be the settled answer.
Theorems `MailboxInvariant`, `MailboxAnswer`, `MailboxStatus`, `MailboxNoOverrun`, for any
spin limit, retry limit and number of calls.

**PowerLimitsProofs.** `PowerInv` follows the fixed order of the registers. `Past` says that a
stage is behind, and the lemmas about `After` (the next stage that is due is the least of
those left) make it the only thing a step has to be asked about. `StageInv` keeps
limits before clamp bits and both before locks, `LimitInv` says what a register holds once its
stage is past and that it holds it halfway as well, `LockInv` what each processor has left behind
in the lock handlers, `MirrorInv` that no mirror is touched where the firmware has none. A lock is
irrevocable, so `LocksAsAsked` must hold in the very state in which a fault may freeze the
machine: this is why the invariant speaks of the clamp bits that are still to come. The formulas of the
code are compared with definitions by choice in lemmas of their own: `PowerIsRequested` (the largest
encodable power within the request), `BoundedIsWithin` (the nearest within the firmware's bounds),
`WindowIsShortest`, `WindowReachesItsField` (what is written is what `HoldsWindow` asks for),
`EncodableUpToTheLongest`. Theorems `PowerInvariant`,
`LimitsReachTheRegisters`, `LocksCloseOnTheLimits`, for any widths, units, bounds, profiles and
number of processors.

**SecureBootProofs.** Because the firmware may ignore a write and a read may fail, the proofs
know of a check only that TRUE is right and that FALSE is right unless the boot is flaky.
`EnrollInv` adds three parts to the types: `BeliefInv` (what the locals of SelfEnroll
believe to be in db and KEK is there), `OrderInv` (a file is reached only with the
files before it in place) and `GrowthInv` (during a boot the variables only grow, the
platform key until PK.auth, and a confirmed change shows as a new certificate).
The reset condition alone is not inductive: without `GrowthInv` the next write could undo
the change that `changed` stands for. Theorems `EnrollInvariant`, `PkIsLast`, `KeysOnlyGrow`,
`DeployedWhenTrusted`, for any certificates, sections, files and number of boots.

**NvramProofs.** `BufferInv` follows the buffer: up to the write the variable is what the boot
found and the buffer is its patched copy; from the write on, some patch did not hold in what
the boot found, so a read-back in which all patches hold shows a changed variable, even
if the firmware kept back other bytes. `PatchedFacts` is the lemma about the operator
`Patched`. Theorems `PatchInvariant`, `PatchesOnly`, for any contents and patch lists.

**BootChainProofs.** `ChainInv` is the invariant of the composition. `LoaderInv` alone is
not inductive in the chain, nor is `IdtGivenBack`: that the table is the firmware's after
`Cleanup` needs that the backup holds the firmware's handlers, which `HookInv` says together
with the steps in which the hook may be installed; the steps before discovery must be known to be
without it, because they may leave without going through `Cleanup`. `WishInv` collects what the
checks passed so far have established, one step after the other. `TurnInv` ties program and loader
together: the program runs only while the loader waits in `StartImage`. Theorems:
`ChainInvariant`; `ChainImplementsLoader`, in which `StartUnderVolter` maps to a stutter or to
`RunUnderVolter`, a step of the program to a stutter unless it is the last, and everything else to
the loader's own step; `LoaderNeverStartsItself`, `EveryEntryIsTried`, `NearestCopyIsTaken`,
`ImageGivesBack`, `OnlyOnWish`. They hold for any entries, boot orders, disks, tables and texts.

`EveryEntryIsTried` needs the whole history of the loop: `Tried(index)` says that among
the first entries of the cycle those that can be started were started, each at its own place. The
code walks by `(start + i) % count`, the property by the rotated sequence; the lemma
`CandidateIsNext` joins the two.

`NearestCopyIsTaken` compares the search with a definition that does not search. Two
inductions over data stand in the way, and neither is needed as such. The recursion of
`FindFileRecursive` ends at `MaxDepth`: `SearchIsFixed` builds its function level by level from
below (directories too deep have nothing, and two functions that agree from depth m + 1 on
agree from depth m on after one more level), and `LevelIsCorrect` goes up the same five levels.
The fold over a listing is compared with its first hit in `ScanIsFirst`, through the least length
at which the two could differ. `SearchIsRight` is the result: what is found is a copy that
the listings lead to, and something is found if there is one. `AttemptsAreNearest` then goes
through the attempts in their order.

**SelfTestProofs.** `ReportIsFinal` compares a counter with the size of a set, so the invariant
follows both through every interleaving: `CountInv` says that the counter is the number of
mismatches that are not *pending* (found by a kernel that has not executed its `lock xadd` yet),
and that a comparison is always one of a later run than the mismatches before it, so that no
mismatch is counted as an old one. `StageInv` says who runs in which stage, and `GlitchInv` that
chains which came apart in time are seen. Theorems `SelfTestInvariant`, `ReportCountsAll`,
`ReportTellsTheTruth`, for any number of processors, runs and glitches. The cardinalities use the
library's theorems about finite sets.

Only model-checked: the liveness properties `ProgramEnds`, `RebootLoopEnds` (keys and
Setup), `TestEnds`, `ChainEnds` and `CallReturns` (fairness and ENABLED are beyond the prover), and
of course the three violations. The tables of `VoltTables.c` and `TimeWindows.c` themselves
enter the proofs by what the modules say of them.

What proving changed in the modules. Some definitions were wrong at values that no run had:
the current of PL4 at 2^29 A and more wraps, so that the profile's current is not what is
programmed; two cases of the encoder in `FixedPoint` overlapped; `PointsAsWanted` asked for
millivolts that the firmware's table may not list; the flag of the maximal current need not follow the
program if the firmware had set it; a profile could have two values for one key. Some were
brought into a form that can be reasoned about, with the same meaning: the windows as a
table (they were powers of two), the next stage as a least element (it was a filtered
sequence), one attempt per volume in the search (it was a flattened sequence of pairs), `Read`
without a filter that removed nothing.

## 6. Not modelled, and limits of the models

* A firmware that restores Setup in *every* POST: the code patches and resets in every boot until
  a key is pressed. `NvramSetup` bounds the restores, and shows that the last one ends the loop.
* Another writer of the OC mailbox (SMM code). The program could not notice it.
* `MiniLog` and `Platform` are not composed (tracing is off in the normal build): that an ended lock
  holder makes later traces spin is in `MiniLog`, the timer in both.
* The branch of `ProcessorIgnite` without a record is unreachable by
  `HandlersHaveRecords`; `Platform` still allows its error.
* Faults while talking to the mailbox freeze the processor (`Platform`'s `Fault`) and are
  not repeated in `CpuMailbox`.
* V/F points outside of +-250 mV (fused by the firmware) are written back through the
  encoder like all others; the runs keep to the range of the tables.
* A failed re-read of IccMax keeps the requested value in the record
  (`VfCurve.c:72-79`), so the final statistics may show a value that is not in force.
* A register whose time window has no encoding keeps the limits of the firmware and is
  still locked if the profile says so (`LocksAsAsked` allows it).
* `PL4` multiplies amperes by 8 in 32 bits: at 2^29 A and more the product wraps. The model
  does it too, `LimitsAsAsked` then asks nothing of the current.
* The two 32-bit writes of the MMIO mirror are one step; bounds of the firmware are
  assumed consistent (minimum not above maximum, or no maximum).
* Other images than UnderVolter that return to the loader leave the descriptor table as it is.
* The characters of the INI text and its parsers of lists, names and GUIDs; the limit on the
  length of device paths; CPUID decoding. `ChainInv` and its kin take their results as given.
* Screens, statistics, the CPU and voltage regulator tables, timing: they have no state that a
  property could be about.

## 7. Plan

Done, in the order of importance: `MiniLog`, `Platform` with `PolicyBarrier`,
`SecureBootEnroll`, `NvramSetup`, `SelfTest`, `Loader`, `CpuMailbox`, `FixedPoint`, `VfCurve`,
`PowerLimits`; proofs of the lock, the policy with its refinement, the mailbox, the enrollment
and the Setup patches; then `Volumes`, `LoaderSearch`, `Config`, `UefiMain` and their composition
`BootChain` with its refinement and proofs, the turbo ratios, processors ended inside a trace,
and firmware that restores Setup.

The proofs followed: first the lock, the policy, the enrollment, the Setup patches and the mailbox,
then the chain with all entries and the nearest copy, the self test, the voltage domain with its
conversions, and the power limits.

Next:

1. An abstract mailbox specification that `CpuMailbox` implements and `VfCurve` uses, so that
   the outcomes of a call are shared by name, and its refinement as a theorem.
2. A GUID and list parser for `[SetupVar]` as pure operators, checked against a reference.
