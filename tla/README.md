# TLA+ models of meta-srg52x

meta-srg52x is an Isar layer that builds Debian images for the Aaeon SRG-3352
gateways (TI AM335x, eMMC and SD card, wl18xx radio, two expansion boards).
Most of its files are recipes, kernel configurations and firmware; the program
logic is in shell scripts, small C tools, one C tool with its counterpart in a
U-Boot patch, and the Lua handlers SWUpdate runs.  This directory models that
logic in TLA+, checks it with TLC and proves the results that matter most for
every value of the constants with TLAPS.

All source paths below are relative to the repository.

## 1. Inventory

### 1.1 SWUpdate A/B handlers and the boot that follows

*Sources*: `recipes-core/swupdate/files/swupdate_handlers.lua`,
`recipes-support/initramfs-config/files/secure-boot-debian-local-patch`,
`recipes-core/images/files/**/sw-description.tmpl`, `classes/image_uuid.bbclass`.

*State*: the two (or more) root partitions and kernel partitions, the EFI Boot
Guard environment (`kernelfile`, `kernelparams`), `/proc/cmdline`, what is
mounted at `/`, and the Lua table `rrtarget`, which lives as long as the daemon.

*Operations*: `handler_roundrobin` determines the current root, computes the next
index of the `device=` list, lets a chained handler flash that device, then
rewrites `root=` in `kernelparams`; `handler_kernelfile` reuses the index, copies
one file to the kernel partition of that index and sets `kernelfile`.  The boot
loader follows the environment; the initramfs mounts the first partition whose
`/etc/os-release` has the `IMAGE_UUID` built into the initramfs, or, the stock
one, `root=`.

*Interaction*: SWUpdate calls the handlers in the order of the sw-description
(images, then files), and writes what `set_bootenv` collected.  The handlers talk
to each other through `rrtarget` only, to the next boot through the environment.

*Hard behaviour*: a power cut at any moment; a second installation before the
reboot; a daemon restart between two handlers; a failed handler that leaves
`rrtarget` set; two answers to "which slot is running" (the kernel's and the
root's).

*What makes it correct*: at every moment the next boot finds one whole build; a
successful installation is what boots next; neither the mounted root nor the
booted kernel is ever written to.

### 1.2 Board identity in the EEPROM

*Sources*: `recipes-bsp/srg52cfg/files/src/srg52cfg.c` (writer and reader),
`recipes-bsp/u-boot/files/0001-add-support-new-board-srg3352.patch`
(`board_detect.c`, `board_late_init`: the reader at boot).

*State*: a 160-byte header in an AT24C02 (magic, revision, name, serial number,
MAC addresses), the tool's copy of it, and the options.

*Operations*: read header and classify it; reset it with `-f`; set the fields
given; write the bytes that differ, one by one.  U-Boot accepts the header if the
magic matches and takes MAC addresses and names from it.

*Hard behaviour*: a power cut in the middle of a write; a read error; write errors
that are ignored; a retry; U-Boot reading a torn header.

### 1.3 Automounter for removable media

*Sources*: `recipes-srg52/srg52-customizations/files/automount/`.

*State*: the mount table, the directories in `/media`, device nodes; one systemd
unit instance per device.

*Operations*: udev add and remove events restart the unit and wait until the
script has ended; the script looks for the device node, and either unmounts and
clears `/media` of directories nothing is mounted on, or asks blkid, consults
fstab, makes a directory and mounts.  `umount_dmenu` unmounts and removes one
directory for a user.

*Interaction*: all scripts share `/media` and the mount table, without a lock.

*Hard behaviour*: scripts of different devices interleave; a medium goes, comes
back or is swapped between any two steps, faster than its events are handled;
what blkid said is stale at mount.

*What makes it correct*: what is plugged in gets mounted, what is pulled out does
not stay mounted, `/media` is clean in the end, what fstab names is left alone.

### 1.4 Expansion boards: UART mode, digital inputs and outputs

*Sources*: `uartmode.c`, `libtoml/` (`recipes-srg52/srg52-expansion-b/files/src`),
`setdo.c`, `getdi.c` (`recipes-srg52/srg52-expansion-a/files/src`),
`conf.d/uartmode.toml`, `services/inituartmode.sh`, `services/uartmode.service`
(`recipes-srg52/srg52-customizations/files`).

*State*: `uartmode.toml`, the copy of it `uartmode` makes in memory, and the GPIO
lines: who has each (nobody, sysfs, a program through the character device),
whether its sysfs files are writable yet, its direction and level.

*Operations*: `uartmode` gets, sets or initialises.  Set rewrites the file with
`sed -i`, then drives the two mode pins of the port one after the other; init, at
boot, drives the pins of all ports from the file.  `setdo` exports a line through
sysfs if need be, sleeps, and drives it.  `getdi` requests a line from the kernel
as an input, reads and releases it.

*Interaction*: the tools of both boards may be in one image, and name the same
lines: DO0 and DO1 of board A are the mode pins of port 1 of board B, DI0 and DI1
those of port 0.  sysfs and the character device exclude each other.  The file is
shared by all invocations of `uartmode`, without a lock.

*Hard behaviour*: two invocations interleave (`sed -i` replaces the whole file); `sed`
fails and nobody looks at its result; a power cut falls between file and pins, or before the file is written out; a file
edited by hand is met by a parser that drops errors and by getters that assert; a
tool of one board touches the lines of the other.

*What makes it correct*: a legal file means to the parser what it says; when
nothing runs, pins and file agree; a boot ends with every port in the mode of the
file; a set changes one port only; nobody turns a line that another tool drove.

### 1.5 Expansion boards: analog inputs

*Sources*: `ads1115_example.c` of either board, `ads1115.c`, `ads1115.h`
(`recipes-srg52/srg52-expansion-{a,b}/files/src`).

*State*: the `ADC_SET` lines, which switch an input between voltage and current; the
ADS1115: configuration, data, register pointer, a conversion under way; each
process's plan.

*Operations*: turn the command line into a level per line and a list of readings;
request the lines; for each reading write the configuration, sleep, set the
pointer, read two bytes; release the lines.

*Interaction*: a line belongs to one process at a time, the converter to all.

*Hard behaviour*: two processes share the converter; a transfer fails unnoticed; a
process is killed and its conversion goes on; the conversion may last longer
than the sleep; the two channels of a group have one mode.

*What makes it correct*: a reading is of the input that was asked for, and its line
is in the mode in which the value is printed; every tool ends.

### 1.6 eMMC flasher

*Source*: `scripts/tools/srg3352c_emmc_flasher.sh` below
`recipes-srg52/srg52-customizations/files`.

*State*: boot loader, partition table and three file systems on the eMMC, the part
of them that is only in the page cache, and where the script is.

*Operations*: erase, partition, format, write the boot loader, copy root file
system, modules, kernel, fstab and boot script, set the board name, halt.

*Interaction*: U-Boot's boot chain reads what the script wrote; the last step calls
`srg52cfg -f` (1.2).

*Hard behaviour*: a power cut between any two steps, with any part of the page
cache written out; commands whose failure is not looked at; a failure that ends
with exit status 0; a second run over the remains of the first, from another card.

*What makes it correct*: an eMMC that starts a system starts a complete one, of one
build; a board the script has halted is flashed.  The second does not hold without
an exception: a boot script that names no kernel goes unnoticed (section 6).

### 1.7 wl18xx radio

*Sources*: `recipes-bsp/srg52-wl183x/files/`.

*State*: the MAC address in `nvs.bin` and the copy of that file in the initrd,
iptables rules, hostapd and dnsmasq configuration.

*Operations*: compare, patch six bytes one by one, rebuild the initrd; start and
stop tethering.

*Hard behaviour*: a power cut between the file and the initrd is not repaired by
the next start, which only compares the file.

### 1.8 Boot script generator

*Sources*: `recipes-bsp/u-boot-script/files/update-u-boot-script`,
`scripts/{EnableExpansionA,EnableExpansionB,CleanExpansion}`.

*State*: `/boot`, mounted read-only or writable, `boot.scr`, the configuration of
the generator.

*Operations*: remount `/boot`, write `boot.scr` in place, remount it back; the
expansion scripts change one line of the configuration and call the generator.

*Hard behaviour*: a power cut while `boot.scr` is written; two generators at once.

### 1.9 What is left

| Component | Sources | State and operations |
|---|---|---|
| Factory tools | `to3352.sh`, `chmac.sh`, `enable-WifiAP.sh`, `disable-WifiAP.sh`, `ppp-creator.sh` | call srg52cfg and fw_setenv, write configuration files once |
| CAN examples | `can_read.c`, `can_write.c` | one frame read or written |
| Root overlay, first start | `rootoverlay.sh`, `generic-startup.sh` | a sequence of mounts in the initramfs, stopped at the first error |
| `eMMC/functions.sh` | `scripts/tools/eMMC/functions.sh` | a library of another project; no script sources it |
| wic plugin | `scripts/lib/wic/plugins/source/bootpart.py` | build time |
| bbclasses, kas, kernel configuration, firmware | `classes/`, `kas-*.yml`, `recipes-kernel/` | build time, data |

## 2. Plan

The order is that of what a fault costs: a gateway that does not boot, a gateway
without an identity, a service that does not come up.

| Step | Modules | State |
|---|---|---|
| 1 | `AtomicUpdate` (what an update promises), `SwuHandlers` (handlers, environment, boot), `MCSwuHandlers`, `SwuHandlers_proofs` | done |
| 2 | `RootParam`, `RootParam_proofs`: the strings between command line, `device=` list and `kernelparams`, which `SwuHandlers` extends | done |
| 3 | `Eeprom` (writer and reader), `MCEeprom`, `Eeprom_proofs` | done |
| 4 | `MediaAutomount`, `MCMediaAutomount`, `MediaAutomount_proofs` | done |
| 5 | `Toml` (parser), `Gpio` (lines), `DigitalIO` and `UartMode` (tools), composed in `ExpansionIO`; `MCExpansionIO`, `Toml_proofs`, `ExpansionIO_proofs` | done |
| 6 | `AdcOptions` (command lines), `Adc`, `MCAdc`, `Adc_proofs` | done |
| 7 | `Flasher`, `MCFlasher`, `Flasher_proofs` | done |
| 8 | the flasher's last step composed with `Eeprom`; the radio's address | open, see section 8 |

`AtomicUpdate` is the abstract specification of the update.  For the other
components what they promise is a relation between two parts of one state (file
and pins, card and eMMC, mount table and directories), and is stated as an
invariant.

## 3. How modules correspond to the code

### 3.1 SwuHandlers

| Variable | Code |
|---|---|
| `root`, `kern` | contents of the root partitions and of each file of the kernel partitions; `Broken` while being written and after a cut |
| `env` | EFI Boot Guard's `kernelfile` and the `root=` of `kernelparams`, as the slot they name; `Nowhere` is a `kernelfile` that names no file of any slot |
| `power`, `running` | `/proc/cmdline`, what is mounted at `/`, the kernel slot that was booted |
| `rrtarget` | the Lua table of that name, `swupdate_handlers.lua:151-158` |
| `pc`, `bundle`, `file`, `result` | where SWUpdate is in the sw-description |
| `pend` | variables set with `swupdate.set_bootenv` and not yet saved |

A build is one value: kernel, initramfs and root file system belong together iff
they come from one image build, which is what `image_uuid.bbclass` makes
detectable.  Each handler is split where a power cut matters: before it, while
it writes, after it.  `RoundrobinRefuse` is every early return before `rrtarget`
is set, `RoundrobinFail` every failure after it (a missing node, or the
misspelt `image.propierties` at line 346), `RoundrobinFlash` and
`RoundrobinDone` or `RoundrobinError` the chained handler and what follows.  `KernelfileCopy`,
`KernelfileDone`, `KernelfileError` and `KernelfileFail` do the same for one file.
`Boot` is the boot loader and `local_mount_root`: the secure boot initramfs takes
the first partition whose UUID is its own and ignores `root=`.

SWUpdate and EFI Boot Guard are outside the repository.  Where the use made of
them leaves their behaviour open it is a constant: `Deferred` says whether
variables reach the environment at the end of the installation or at each call.
`kernelfile` always gets the configured `kernelname`, `linux.signed.efi` (lines 113 and
440), whatever the file that was copied is called: `Labelled` are the slots of which that
name, behind the `bootlabel` of the slot, is the kernel the bundles bring.  It is every
slot for the secure boot bundle, which has this one file, and none for the two files of
`sw-description.tmpl` (section 6).  The boot loader's own fallback and watchdog are not
modelled; they can only mask
a slot that does not boot.  `Broken` never matches a UUID: a partition cut short
could by chance hold a complete `/etc/os-release`, which the model leaves out.

`Discipline` is what whoever offers the bundles observes: `fullBundles` (every
bundle has a root image), `rebootFirst` (no installation while a reboot into the
other slot is pending), `freshBuilds` (no build that a slot other than the target
already holds).  The code enforces none of the three.

### 3.2 AtomicUpdate

The device has one installed build; `Install` replaces it in a single step; `Boot`
runs it; `PowerOff` happens at any time.  `SwuHandlers` implements it under the
mapping `Update`: installed is the build of the initramfs that the environment
selects, current is the build of the mounted root.  A device in panic maps to a
value that is neither off nor a build, so that a refinement that holds also says
that no device panics.

### 3.3 RootParam

The strings behind the index: `RootDevice` is the Lua pattern
`(root=[%u=]*[/dev/]*(%S+))` applied to words over the character classes it tells
apart, `RootValue` what the handler writes into `kernelparams`, `ReadBack` the
round trip from a device of the list to the index that the next installation finds;
`SwuHandlers` extends the module and takes `CurrentRoot` from it.  `Stripped` are the
names of which the pattern takes more than the prefix `/dev/`: those that begin with
one of its characters and, where nothing ends the skipping of upper case before the
name, those that begin with a capital.

### 3.4 Eeprom

| Variable | Code |
|---|---|
| `ee` | the bytes of the AT24C02; `Layout` gives the field of each |
| `pc`, `inv` | `main`: `preprocess_cmd_option`, `readFromEEPROM`, `process_options`, `writeIntoEEPROM`; the command line |
| `eeBuff`, `flag` | the global buffer, the result of `readFromEEPROM` |
| `epr`, `idx` | the header to be written, the loop counter |
| `status` | exit status |
| `valid` | history: the header was valid when the run began |
| `env` | what U-Boot's variables were taken from |

`ReadChunk`, `ProcessOptions`, `WriteCell` are one iteration of the read loop, the
option processing and one byte of the write loop; `ReadResult` is what
`readFromEEPROM` makes of the bytes behind the last chunk.  `OpenFails`, `ReadFails` and the
second disjunct of `WriteCell` are the error paths; the result of a byte write is
not looked at, as in the code.  `Boot` is `srg52_i2c_eeprom_get` and
`board_late_init`, including the manufacturer copied with the length of the serial
number, and the deletion of variables set to an empty string.

Assumptions: a byte is written atomically; bytes other than 0xFF and 0 are
printable; the saved environment of U-Boot has no `ethaddr` of its own; a command
line has each option once; the uninitialised pointer given to `strtoul`
(`srg52cfg.c:184-202`) crashes the process or does nothing; `read` does not return
0 for ever.

### 3.5 MediaAutomount

| Variable | Code |
|---|---|
| `node` | the medium behind `/dev/sda1` and so on |
| `mounts`, `dirs` | `/etc/mtab`, the directories in `/media` |
| `events` | udev events of a device not yet handled; `systemctl restart` of a unit of type forking returns when the script has ended, so that one device's scripts do not overlap |
| `pc`, `info`, `todo`, `victim` | the script: where it is, `UUID`/`LABEL`, the rest of the loop over `/media`, its `$dir` |
| `leaving` | `umount_dmenu` between `umount` and `rmdir` |

One action per command of the script that reads or changes what others change.
`InFstab` is the list of `&&` and `||` at lines 76-78 as the shell parses it: when
the UUID is found the search continues with the label, and forgets the entry if
that is not found; an empty label is found everywhere.  `OnlyUuidMissed`, a part of
`IInv`, says that this is all the script misses of fstab.

`MediaAssumption`: a medium that fstab names has the UUID or label by which it does.
Left out: the tests that leave the eMMC and the boot device alone (lines 28-44), two
media with one label (the lower mount cannot be taken off before the upper),
`umount` of a busy medium, device names of which one is a prefix of another in
the search of mtab.

### 3.6 Toml, Gpio, DigitalIO, UartMode, ExpansionIO

| Module | Definitions | Code |
|---|---|---|
| `Toml` | `at`, `sec`, `key`, `tabs`, `keys`, `top`, `err` | where `toml_parse`, `toml_parse_table` and `toml_parse_key_value` are, the table keys go to, the tables and values so far, who reads the pairs, and whether an error is set |
| `Gpio` | `gpio` | who has a line, whether its sysfs files are new (`fresh`: udev has yet to make them writable), its level |
| | `run` | each process: its place, what it has still to do, its copy of the file, whether it is `alone`: nothing has run beside it and its `sed` has not failed |
| | `told` | history: which tool drove the line last, and to what, if it was `alone` |
| `DigitalIO` | `Setdo`, `SetdoWrite` | `setdo` up to its sleep, and the write behind it |
| | `Getdi`, `GetdiRelease` | `getdi`: request, and release |
| `UartMode` | `file`, `disk` | `uartmode.toml` as programs see it, and as a power cut leaves it |
| | `boot` | whether the service of this boot has been started |
| | `Taken`, `loadconf`, `Options`, `Plan` | `procUARTTable` and `procModeTable`, `loadconf`, `preprocess_cmd_option`, and the choice in `main` |
| | `SedRead`, `SedRename`, `SedFails` | the two halves of `sed -i`, and its failure in either, after which the pins are driven all the same |
| | `Export`, `DriveFirst`, `DriveSecond`, `Exit` | `setUartMode`, for one port after the other |
| | `BootService`, `Flush`, `PowerCut` | `uartmode.service`; the file system; the power |
| `ExpansionIO` | `left`, `undisturbed` | bound on commands and cuts; history: no command since the power came |

The parser is an automaton over tokens, with a state for each place where the code
looks at a character and `null`, `hang`, `abort` for the three ways it does not come back
with a table.  An error that is dropped stays set, and `toml_err_set` asserts that there
is none: a second one aborts (`Mistake`).  The asserts are in the program that is built,
since the top-level `CMakeLists.txt` sets no build type.  `Meaning` says what TOML says of a text, line by line and without an
automaton, and `LegalFilesLoad` compares the two.  `Words` are the bare names a text
may have; `Texts` are all texts of them, integers and symbols, of any length.  Left out are the insides of
strings, arrays, tables in braces, arrays of tables and dates, and memory management; none
of it occurs in `uartmode.toml`.  A legal text gives no name twice, neither to two keys
nor to two headers nor to one of each.

A write to a sysfs file may fail without notice (`writeFile`'s result is dropped):
`Directed` has both outcomes until the program has slept.  A program that starts
beside another clears `alone` in both, which is how `told` and the properties know
that nobody got between.  The kernel's side of sysfs and of the character device is
modelled from the use the tools make of it.

`Agree` says in which two ways file and pins part: something ran beside the `uartmode` that
drove the pins, or its `sed` failed.  In both the program is no longer `alone`, and the pins
it drives are not counted as told.

`IInv`, which TLC checks and the proofs carry along, has four parts: `FilesTyped`;
`LinesInv`, who has which line; `BootInv`, what the service of a boot has still to drive;
`AgreeInv`, how the versions of the file (`file`, `disk`, the copies of `sed -i`) stand to
each other and to the pins.

### 3.7 AdcOptions, Adc

| Variable | Code |
|---|---|
| `board` | which of the two programs; they differ in options, lines and the scope of what they request |
| `line` | owner and level of each `ADC_SET` line |
| `dev` | the ADS1115: configuration word, conversion under way (whose, of which input), data, register pointer |
| `run` | each process: its plan, the readings still to take, the last reading, whether anything disturbed it |

`AdcOptions!Plan` is `preprocess_cmd_option` and what `main` makes of its results: a
level for every line and a mode for every reading.  `TakeLine` and `FailLine` are the
loop that requests lines; `Configure`, `SetPointer` and `Fetch` the three transfers of
`readVoltage` and `readVoltageDiff`, each with a second action in which it fails;
`Finish` the end of `main`.  `Sent` is what `configDevice` sends, with
`config && 0xFF` for the low byte, and `ConversionMs` the time the converter then
takes, against the 135 ms of the sleep.  `Code` is the data register as the tool
reads it: 16 bits without a sign.  The converter and the kernel are modelled from
the data-sheet values in `ads1115.h` and the calls the tools make.  The factor that
makes volts or milliamperes of a code is left out.

### 3.8 Flasher

| Variable | Code |
|---|---|
| `disk` | what is on the eMMC: boot loader, table, and each thing the script copies |
| `cache` | the same as the running system sees it |
| `card` | the build on the SD card the board was started from |
| `pc` | the script's last command |

`FlushCache` is the `flush_cache` a command begins with, `Format`, `Copy` and `Erase`
what it then writes, `Fail` what an error leaves and whether `bash -e` or
`write_failure` ends the script.  A power cut keeps, loses or tears every write that
is not flushed, each for itself; what erasing leaves can be mounted as before or not
at all.  `UpdateBootScript` writes the card's script or, where line 373 found no kernel,
`Nameless`, one that names none; `CopyReserved` copies whichever it is.  `Boots` is the
boot chain: the ROM loads MLO, MLO U-Boot, and U-Boot runs the
boot script, which loads the kernel and names the root partition.

Assumptions: `mkfs.ext4` writes its file system back before it ends; the megabyte
that `dd` erases of a partition is the superblock and the group descriptors; a boot
loader, kernel or boot script that is torn does not start; the board was started
from the card, which the script tests (lines 35-49).  LEDs and messages are left
out; what the last step does to the EEPROM is in `Eeprom`.

## 4. The runs

Passing runs:

| Run | Configuration | States | What it shows |
|---|---|---|---|
| `swu_secure` | 2 slots, one signed file, root by UUID, variables saved at once, full discipline | 1010 | the shipped set-up: always bootable, updates take effect, running slot spared, every boot comes up, refinement of `AtomicUpdate` with its liveness |
| `swu_retry` | 2 slots, one file, which `kernelfile` names, `root=` with plain names, only `fullBundles` | 12330 | without a reboot in between, for any build and after failures: no update is refused, what succeeds takes effect; neither root nor kernel that runs is touched |
| `eeprom_shared` | 9-cell header, two processes setting different fields, open errors and power cuts | 47164 | no update lost, other fields kept, every run ends |
| `eeprom_faults` | two processes setting the same fields, erased or programmed, all faults | 1.47 million | a valid header stays valid; every boot finds addresses and a serial number |
| `automount` | two devices, one named in fstab, five media, four insertions and removals, a user | 15567 | clean `/media`, no dead mounts; of fstab only the UUID of a labelled medium is missed |
| `expansion_io` | the shipped file and 98 that are one edit away, two processes, two commands, one power cut, a `sed` that may fail (processes symmetric) | 136224 | legal files load, file and pins part only by a failed `sed` or another tool, a boot restores the pins, a set changes one port, no tool turns what another drove |
| `adc` | both boards, two processes, ten command lines, transfers that fail, kills | 36683 | an undisturbed reading is one's own, its lines are held in its mode, every tool ends |
| `flasher` | two builds (symmetric), any number of runs, cuts and failures | 543628 | nothing that starts is half a system; a halted board is flashed, but for a boot script that may name no kernel |

Runs that TLC finds violated, each a disagreement of code and text:

| Run | Property | Disagreement |
|---|---|---|
| `swu_reinstall` | `KernelCopySparesBooted` | after the build that already runs was installed, the initramfs mounts the first slot with that UUID, and the next installation overwrites the booted kernel |
| `swu_partuuid` | `UpdatesAccepted` | PARTUUIDs are supported, says the handler; of one that begins with d, e, v or a capital its pattern takes that off, and a device that booted it refuses every update |
| `eeprom_unreadable` | `OtherFieldsKept` | with `-f` a failed read counts as an erased EEPROM |
| `automount_lost` | `MountedWhenAdded` | one device's clean-up removes the directory another is about to mount on; nobody tries again |

### Bounds

* Two slots are what both sw-description files have; the proofs of
  `SwuHandlers_proofs` are for every number.  Three builds are one factory build and
  two that can follow each other in both slots.  The number of installations and
  power cuts is not bounded.  The runs have the one file of the secure boot bundle; the
  proofs are for any number of files.
* Nine cells: every kind of field, a magic of two cells so that it can be torn, a
  manufacturer longer than the serial number, an address of two cells, and one
  cell behind the header.  Two processes are enough for every pairwise
  interleaving of the reads and writes; the proofs cover any number.  Runs and
  power cuts are not bounded.
* `MaxPlugs` = 4 lets a medium come, go, come back and be swapped in the middle
  of one script, and two devices overlap in every way.  It was checked with 5 as
  well.
* Device names have two characters, `s4` and `s5` as in the handlers' example, `f2` and
  `d2` for PARTUUIDs of which one is stripped: the pattern looks at a name's first
  characters only.  The proofs are for names of any length.
* `expansion_io` starts from the shipped file, that file without any one of its
  lines, and that file with any of thirteen lines added at any place behind its first:
  every branch of the parser.  `MaxRuns` = 2 commands beside the boot's service let any two
  command lines overlap, and `MaxCuts` = 1 cut falls at any step of them; where the
  file is not the shipped one a single command and no cut are enough, since what
  differs is what is loaded.  The processes run the same programs, hence the symmetry.
* `adc` bounds neither runs nor kills nor failures.  Two processes disturb each other
  in every way two can; the proofs cover any number.
* `flasher` bounds nothing but the builds: two, so that remains of one meet the
  other.  They are interchangeable, hence the symmetry.

### Fairness

`WF(Boot)`: a device that is off is switched on.  Without it `ComesUp` says
nothing; with it the property still excludes panic.  No installation, no fault
and no reboot is fair.  `WF(Step(p))` for srg52cfg: a process that can run is
scheduled.  For the automounter `WF(Restart(d))`, udev works through its queue;
`WF(Step(d))`, a script goes on; `WF(DmenuRmdir)`.  Insertions, removals and users
are not fair.  `Adc` takes `WF(Work(p))`, a
tool goes on, and `WF(Convert)`, the converter ends what it began; starts and kills
are not fair.  `ExpansionIO` and `Flasher` state no fairness: what they promise is
about the states in which nothing runs, in which a boot is over, or that a cut may
leave.

Deadlock is checked except for the automounter and `expansion_io`: after the last
insertion, removal, command or cut a quiet system stops.

## 5. Proofs

### SwuHandlers_proofs

`TypeCorrect` holds for every configuration.  The theorems up to `ImplementsUpdate` assume

    SafeConfiguration == /\ Discipline = Rules
                         /\ Labelled = Slots
                         /\ RootArg => NamesApart
                         /\ Deferred \/ (UuidRoot /\ ~ RootArg /\ F = 1)

that is: the discipline is observed, `kernelfile` names what the bundles bring, a
device that was booted is not taken for another one of the list, and either the
environment is saved in one piece or one variable and one file are all there is to
write.  The last line is not an artefact of the proof: outside it a power cut between two `set_bootenv`
calls, or two files, leaves a kernel of one build with the root of another.
N, F, the builds and the bundles are arbitrary.

`Bootable` is not inductive: that the next boot finds a whole build depends on
where an installation may write.  `IInv` (theorem `Invariant`) adds

* `NextBootIsWhole`: the slot of the environment is whole in all its files, and no
  earlier slot would be found in its place;
* `RunningIsOneSlot`: kernel, mounted root and command line of a running device
  agree, so that roundrobin's idea of the current root is also kernelfile's;
* `InstallIsAside`: an installation has only touched `rrtarget`, which is not the
  slot of the environment, and no other slot holds its build;
* `PendingNamesTarget`: what waits to be saved names `rrtarget`.

`AlwaysBootable`, `MountedRootSpared`, `BootedKernelSpared`, `KernelNeedsRoot`,
`SuccessTakesEffect` follow from it; `ImplementsUpdate` shows that every step is a
step of `AtomicUpdate` or stutters.

Four theorems do without the discipline.  `MountedRootAlwaysSpared`
(`RootFlashSparesMounted`) has neither rules nor `Deferred` nor `Labelled`: it only takes
`NamesApart` and excludes devices with both a root found by UUID and a `root=` on the
command line, on which the two may name different partitions and TLC finds the mounted
one overwritten.  Its invariant is `RootIsNamed`, what a `root=` names is the mounted
root.  `UnstrippedAccepted` (`UpdatesAccepted`) adds that no update is refused on account
of what earlier ones wrote, if the pattern takes nothing off the names in the list;
`swu_partuuid` shows what happens otherwise.  `RetriesSpareKernel` and
`RetriesTakeEffect` are what `swu_retry` checks: with `RetryConfiguration` (a root found
by `root=`, `kernelfile` naming what the bundles bring, variables saved in one piece,
bundles with a root image) any build may follow any other without a reboot.  Without
`Labelled = Slots`, as with the two files of `sw-description.tmpl`, what succeeds does
not take effect (section 6).  `NextBootIsWhole` fails there, since the second
installation overwrites the slot of the environment; `RetryInv` has instead that both
variables name one slot, and what runs is one slot (`VariablesInStep`), and that an
installation works aside of it and sets both variables to where it works
(`RetryIsAside`).

### RootParam_proofs

For any names, of any characters and any length.  `SkipTo` says where a greedy
skipping ends, `WhereItEnds` where the pattern leaves off in what `kernelparams` has
for each kind of device.  `UnstrippedFound`: a device whose name the pattern leaves alone
is read back as itself.  `OneLengthApart` gives the `NamesApart` that the theorems about
the handlers assume: names of one length, of two characters at least, are not taken for
one another, whatever the pattern takes off; with `dsda2` and `sda2` in one list the
running root would be taken for the other one.  PARTUUIDs of one disk, and
partitions of one disk below ten, have one length.

### Eeprom_proofs

For every layout, number of processes, set of command lines and chunk size.
`TypeCorrect`, `ValidForGood` (`StaysValid`) and `Invariant` (`IInv`) hold under all
faults; `FieldsOfOthersKept` (`OtherFieldsKept`) assumes that reads do not fail, which
`eeprom_unreadable` shows to be necessary.  `StaysValid` needs `SignatureWritten`:
whatever a process is about to write has the signature.  `OtherFieldsKept` needs
`OwnFieldsDiffer`: a run that began with a valid header has read one, though
other processes were writing at the same time, and what it is about to write
differs from what it read in its own fields only.

`SettingsSurvive` (`SettingsTakeEffect`) assumes `CleanRuns`: every board was programmed
(the first command with `-f` writes the whole header, over anything beside it), no
read and no byte write fails (`writeIntoEEPROM` does not look at the result), and no two
command lines give one cell different values, since then only the last counts.  `IInv`
then has `SettingsHold`: of the cells a run is to set, those its loop has passed have
their values, and so have those it found set and leaves alone: another process
could only have written the same.  Power cuts are allowed.  `BoardIdentified`
(`Identified`) follows from `Boot` alone, under all faults.

### MediaAutomount_proofs

For any devices, labels, media, number of insertions and interleaving.  That `/media`
is clean in the end is not inductive, since the script that leaves a directory is not
the one that removes it.  `IInv` adds `Watched`, every directory has something mounted
on it or somebody on the way to it (the script about to mount on it or to undo
that, one that has it on its list or was about to remove it, `umount_dmenu`), and
`FstabLookedAt`, what is about to be mounted was not in fstab as far as the script's
test can tell.  `MediaIsClean` and `OnlyUuidsMissed` follow.  `MediaAssumption` says
that fstab names a medium only by what the medium has.

### Toml_proofs

`LegalTextsLoad`: of a legal text of any length the parser makes the tables its headers
name and the keys and values of its pairs; it is not refused, does not abort and does
not loop.  It is an induction over lines: behind line i the automaton is between pairs,
in the section `SectionOf` gives, with the tables and keys of the lines so far and no
error set.  A text that gives one name twice is not legal: TOML forbids it, and the
parser does several things (a second header goes on with the first one's table, a header
that names a key with a value leaves the keys behind it to the root table), so that `NamedOnce` and `NoTableLost` carry the step from i to
i + 1.  `LineRun` and `TextRun` unfold the two
recursive functions; both rest on `LeastOf`, the least place where a claim fails.
`TextTyped` is about all texts: the parser stays among the states of the automaton,
with words as keys and tokens as values.

### ExpansionIO_proofs

For any processes, command lines, contents of `uartmode.toml`, numbers of commands and
power cuts; `LinesAssumption` says that the kernel has the lines the tables name,
`FilesAssumption` and `CommandsAssumption` that files and command lines are texts and
words.

* `TypesCorrect` and `LegalAlwaysLoad`: what `sed` makes of a text is a text, and a legal
  one loads as it says.
* `LinesInvariant`, `LevelsKept` (`PinsAsTold`): a line with new files has an exporter that
  still sleeps before it writes; a line taken through the character device has exactly
  one `getdi` reading it, so that its release takes nothing from another; a line that was
  driven stays exported, and who runs alone has got the lines it is about to drive.
* `BootInvariant`, `BootAlwaysRestores` (`BootRestores`): while nobody interferes, a port
  the file gives a mode is either restored or still ahead of the service, which runs
  alone and has the ports of the file in its list.
* `VersionsAgree` (`IInv`), `PinsFollowFile` (`Agree`), `UpdatesSurvive`
  (`UpdateSurvives`): every version of the file has the same ports, and either agrees with
  the pins that were driven last by a `uartmode` that was alone, or is about to be driven.
  A copy that loses to another set, a file that a cut throws back to the one before, and
  a mode that is no mode are all covered.  So is a `sed` that fails: the pins are driven
  nevertheless, away from the file, which is why `SedFails` clears `alone` and nothing is
  claimed of pins driven behind it.  `UpdateSurvives` is about a `sed` whose copy is of the
  file it replaces; what is lost otherwise is in section 6.

The last group assumes that each file the board may start with is `Tidy`: legal, and
without a table that is named like the key of a port.  Both are needed.  `sed`
replaces `port0Mode` wherever a line has it: a header `[port0Mode]` becomes a header
that is not closed, and the next start aborts.  And a set repairs what was no pair: a
line `port0Mode` without a value sends the lines behind it to the root table, where
they do not count; a set of port 0 makes a pair of it, and a second `port1Mode` behind
it then counts for port 1.  `ShippedIsTidy` shows that the shipped file is, and the proof that sets
keep files tidy.  TLC checks the three properties for files that are not tidy as well,
each of the run's 98 edits; one edit of the shipped file makes neither of the two.

### Adc_proofs

For any number of processes, command lines, input voltages and garbage.  `IInv` adds
`LinesInv`, the lines a process has are those of its plan, at the plan's levels, and a
reading's lines are among them; and `ConversionInv`, whoever may count on the
converter waits for a conversion of its own and finds it ended when it reads.  Who may
is `Excl`: every tool of board B, because each takes both lines before it touches the
converter, and a tool of board A while nothing runs beside it.  `ReadingIsOwn` and
`LinesHeld` follow, and `TypeCorrect`.

### Flasher_proofs

For any set of builds; `ContentsDiffer` says that what is no build is none.
`BootsWhole` is not inductive: it says nothing of what is in the page cache.
`CutIsHarmless` does, by phases: up to the formatting of the boot partition what is not
flushed can only take something away from the system on the disk (`OnlyTaken`); from
there to the boot script neither disk nor cache has one (`Unscripted`); from then on
all it leads to is on the disk and of one build (`Scripted`), or the script names no
kernel, which leaves the disk without one (`Unscripted` again).  `Phases` ties these to
the script's place, `Copied` says what each command leaves to the ones behind it.
`NoHalfSystem` and `Flashed` follow; `Flashed` says of the boot script only that it is the
card's or one that names no kernel, and that its copy on the third partition is of it.

### What is only model-checked

Liveness: `ComesUp`, `RunsEnd` of both modules, `GhostsGo`, and the liveness half of `ImplementsAtomicUpdate` (`ImplementsUpdate` is its safety half).  Every
invariant and action property of a passing run has a theorem.  Where a theorem has a
hypothesis, the run may go further on its small instance: `expansion_io` has files that are not
tidy.

## 6. Seen while modelling, without a run of its own

SWUpdate handlers:

* `swupdate_handlers.lua:346` reads `image.propierties`: every bundle that chains
  `rdiff_image` fails with a Lua error.  The model has it as a failure of
  `RoundrobinFail`.
* `swupdate_handlers.lua:403` has the comment "Check that rrtarget is set, else the
  'roundrobin' handler hasn't been run", but `rrtarget` is set at line 330, before the
  chained handler, and never cleared: after a failed roundrobin a bundle of kernel
  files alone is put next to a half-written root.  `fullBundles` excludes it; without
  that rule TLC finds `KernelFollowsRoot` violated.
* `swupdate_handlers.lua:113` and 440 make `kernelfile` of the label and the configured
  `kernelname`, `linux.signed.efi`, where lines 20-36 and 51-55 show a kernel and an initrd
  being placed.  An installation of `sw-description.tmpl`, which brings `vmlinuz` and
  `initrd.img`, succeeds and leaves a `kernelfile` that it has not written.  With
  `Labelled = {}` and `F = 2` in the configuration of `swu_retry` TLC finds
  `SuccessRunsBundle` violated by the first update.
* No image recipe refuses a bundle for the build that runs, or an older one.

Board identity:

* `srg52cfg -f` that is interrupted on an erased EEPROM is not completed by
  repeating it: the header is valid by then, so that the defaults of the
  manufacturer and the serial number are not written again.
* A run of `srg52cfg` whose second `open` fails exits with 0 and has written nothing;
  `SettingsTakeEffect` is about runs that reach the end of the writing.
* The U-Boot patch copies the manufacturer with the length of the serial number
  (line 1191): `board_vendor` is cut to 16 characters.

Automounter:

* `media-automount:76-78` do not do what the comment at line 80 says, "Don't manage
  devices that are already in fstab": a labelled medium of which fstab has the UUID only
  is mounted all the same.  The run `automount` has such a medium, and `OnlyUuidMissed`
  that it is the only case.
* A medium that is away when blkid is asked and back for mount is mounted under
  its device name besides its label, and removal takes one of the two mounts off;
  `GhostsGo` is about a device that is mounted once.

uartmode and libtoml:

* `uartmode.c:176-184` returns what `system` returned, and 375-378 drop it: after a `sed`
  that failed, on a file system that is full or mounted read-only, the pins are driven
  all the same.  `uartmode` reports success, file and pins differ, and the next boot
  brings the former mode back.  `Agree` and `UpdateSurvives` except it.
* `toml.c:1638` drops an error inside a table: the keys behind it go to the root table,
  and `uartmode` stops at an assert because the one it wants is missing.  The
  codes -2 and -3 `loadconf` would return then are never reached.  The error stays set,
  and a second one aborts in the assert of `toml_err_set` (135-137).
* A header that is not closed, or has something in its name that is no part of one, is
  reported twice by the loop at `toml.c:1596-1599` and aborts in the same assert.  The
  asserts are live, as the top-level `CMakeLists.txt` sets no build type.
* `toml.c:1655-1684` never pass a token they have no branch for: a line that begins with
  `=`, `]`, a quote or another such character makes `uartmode` loop for ever, at each boot.
* `uartmode.c:180`: the pattern of `sed` is tied neither to a table nor to the beginning
  of a line.  A table named `port0Mode` is broken by a set of port 0, and a pair of port 1
  that an error above it had put out of force may come into force.
* A comment behind a header (`toml.c:1628`) leaves the table out, without an error.
* `toml.c:810-818` returns the string it has freed if a basic string is not closed;
  `toml.c:1730` reads a file of 4095 bytes or more over its own beginning.
* `uartmode.c:343`: a negative mode is accepted, written to the file and never driven; a
  negative port leaves the file alone (no key matches) and writes in front of
  `conf.mode` (377).
* Two sets of one port at the same time can leave its pins in a state of neither: each
  has driven one of them last.  Between the two pin writes (203-204) a port that changes
  from RS-232 to RS-485 half duplex, or back, passes through another mode.
* `uartmode.c:198`, `if (bExport = 1)`: the sleep is taken in any case, which is what
  makes the write behind it safe.

setdo and getdi:

* A second `setdo` for a line whose first is still asleep does not wait
  (`setdo.c:151-157`): its write may be refused, and the first command's comes after it.
* `getdi.c` compares an unsigned value with 0 and does not see a failed read; it fails
  on any line that sysfs has.
* An image with the packages of both boards shares lines between a digital output and a
  transceiver: each tool drives the other's.

Analog inputs:

* `ads1115.c:73`, `config && 0xFF`: the converter runs at 8 samples a second instead of
  128.  A conversion takes 125 ms, the sleep is 135 ms; the shorter sleep the configured
  rate suggests would read the value before.
* A negative voltage is read as its code plus 65536.
* On board A, which requests only the lines a command names, two processes can be
  between configuration and reading at the same time, and read each other's input.
* A line that is taken makes the tool release lines it has not looked up
  (`ads1115_example.c:298`); `-a` and `-d` read `argv` behind its end (125, 142); `-h` has
  no effect of its own.

Flasher:

* `srg3352c_emmc_flasher.sh:373` takes the kernel's version from a pipeline without
  `pipefail`: if `linux-version` fails or lists nothing, `bash -e` does not see it, and
  boot.scr loads `/vmlinuz-` (385-386).  The script goes on and halts, and the board does
  not boot from eMMC, as step 6 of `README.rst` says (lines 63-67).
  `HaltedMeansFlashed` excepts the boot script.
* Nothing is flushed between fstab and boot script (312-314): after a cut the eMMC may
  start its system with an fstab that is missing or torn.
* `write_failure` ends with status 0 (line 77), so that a caller takes a failed run for a
  finished one; the board is not halted, which `HaltedMeansFlashed` relies on.
* MLO is written before everything else: the ROM of a board whose run was cut finds a
  boot loader on the eMMC that leads nowhere.
* `ln -s` (284) fails if the root file system copied has that link already.

Others:

* `rootoverlay.sh:34-35` tests `wipedata=` and takes the value of `factoryreset=`.

## 7. Running

    tlc -config SwuSecure.cfg MCSwuHandlers
    tlapm SwuHandlers_proofs.tla

Each configuration goes with the MC module that `PROJECT.json` names for it.

## 8. Not modelled

* *Boot script generator and expansion scripts*: sequential scripts whose effect is a
  file written in place.  Nothing in them orders writes, locks or retries, so that there
  is no behaviour of their own a property could be about; the hazards are recorded.
* *wl18xx radio*: sequential scripts around other programs.  The one hazard, a cut
  between `nvs.bin` and the initrd, is recorded; the code does nothing against it.
* *Factory tools*: `to3352.sh` and `chmac.sh` call `srg52cfg`, whose effect `Eeprom`
  models with the command lines they use; the others write a configuration file once.
* *CAN examples, root overlay, first start*: nothing runs beside them and nothing is
  kept from one step to the next.
* *`eMMC/functions.sh`*: no script of the layer sources it.
* *wic plugin, classes, kas, kernel configuration, firmware*: build time and data.
* Of modelled components: the U-Boot branch of the handlers (`swupdpart`, in which kernel
  files are a TODO) and their INI parser; pin muxing and DDR set-up in the U-Boot patch;
  the automounter's tests for the eMMC and the boot device (lines 28-44), two media with
  one label, a busy `umount`; the parts of TOML that `uartmode.toml` has no use for.
* Compositions: the flasher's last step runs `srg52cfg -f` before the final `sync`; that an
  EEPROM write is independent of the page cache is the reason the two are modelled
  apart.
