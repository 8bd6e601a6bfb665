# A verification of Qemu-For-Embedded-Linux

The repository teaches how to boot embedded Linux in QEMU: on a Versatile
Express board with a BusyBox user space, and on a Raspberry Pi 3B with a Yocto
or a Raspberry Pi OS image. Most of its files are guides, a vendored ARM
sysroot and boot binaries. The program of its own is small: two launch scripts
that run as root on the host, and the start-up files of the target. They work on
state that outlives every run of them (loop devices, mounts, an SD-card image,
files in a working directory), they can be cut off at any line, they are run
again on what was left, and nothing stops anybody from running them next to
each other, or from cleaning up the host under them. That is what these modules
are about.

All paths below are relative to `src/`.

## 1. Inventory

| component | source | state it keeps | operations |
|---|---|---|---|
| SD-card preparation | `06_yocto_qemu/prepare_Qemu.sh` | `rootfs.img` and the contents of its two partitions; archives and unpacked images in the working directory; loop devices and mounts of the host; the variables `loopdevice`, `yoctoImage` | make and partition the image, attach, format and mount it, fetch and unpack the newest Yocto image, attach and mount that, copy, unmount, run QEMU, clean up |
| Raspberry Pi OS launcher | `06_yocto_qemu/run_Qemu-raspian.sh` | the release image and its size; loop devices and mounts; copied kernel and device tree; `image`, `raspiosImage` | find the image, resize, attach, mount, copy two files, unmount, detach, run QEMU |
| Target boot | `vexpress_tools/rootfs/etc/inittab`, `etc/init.d/rcS` | `/etc/{passwd,group,shadow,hostname,hosts}` on the card and in the page cache; mounts; kernel host name; the state of init | mount the kernel file systems, write and set the host name, provide root entries, offer a shell |
| Login environment | `vexpress_tools/rootfs/etc/profile`, `profile.d/*.sh` | variables, aliases, prompt of a shell | read once by a login shell |
| Pi boot files | `rpi3b-tools/boot/config.txt`, binaries | none of its own | settings for closed firmware |
| Guides 01-06 | `*.md` | none | commands an operator types |
| Introductory program | `01_introduction/main.cpp` | none | prints a line |
| ARM sysroot | `rpi3b-tools/rootfs` | none | vendored C library |

**Interaction.** The two launchers share the host kernel's table of loop
devices and its mount table, and each run shares them with every earlier run.
`prepare_Qemu.sh` shares the card with the guest, which mounts its root
read-write (line 68), and takes its input from the deploy directory `..` that
Yocto fills. On the target, init runs rcS to its end and then offers the
console; rcS meets the files that earlier boots wrote. The operator types the
clean-up commands of `03_virt_sdcard/03_virt_sdcard.md:119-126` between runs,
and `losetup -D` (`06_yocto_qemu/rpi3b_yocto_qemu.md:159`) possibly during one
in another terminal.

**What is hard.** Failure, the order of things, and state shared without a lock:

- `set -e` without a trap: a run that fails leaves up to two loop devices and
  four mounts, and nothing undoes them;
- mounts stack: `umount DIR` takes the newest one, which must be the run's own;
- `rm -rf` on a directory on which a card is still mounted;
- wildcards that pick up leftovers of earlier runs (`./*bz2`, `./*[0-9]*.wic`,
  `./2*[0-9]*.img`);
- an image that exists but was never partitioned, or has one partition; an archive
  cut short; a build or a release that lacks a partition or a file a line asks for;
- kernel and device tree come from one image, the file systems from another;
- a file system of the card mounted by an old run while a new run formats it;
- a loop device detached while mounted stays until its last mount goes, and until
  then keeps its name;
- between two commands a script holds no more of a device than its name: if the
  device goes, the kernel may give the name to another file;
- two runs in one directory: their mounts stack, and each `umount` takes the newest;
- a crash of the host, which leaves archives without their end and a card that
  may be inconsistent;
- on the target, a power cut between a write and its reaching the card.

`PROJECT.json` lists each of them, with its line, under "hazards".

**What makes each component correct.**

- *Both launchers*: at every line, the host is as the run found it plus exactly
  what this run has attached and mounted; a run that completes gives all of it
  back; whatever is booted is one consistent build, the one asked for; a failed
  run can be followed by a successful one; neither takes what the other, or
  another run of itself, holds.
- *Target boot*: whatever boots were cut off before, and whichever lines fail in
  this one, every line that does not fail itself has its effect by the time the console
  is offered: a file system, the host name, one root entry per identity file;
  what somebody chose is never replaced by a default.

## 2. Modules

| module | models | extends or instantiates |
|---|---|---|
| `Host` | the loop-device and mount tables, `losetup`, `mount`, `umount` | |
| `Disks` | the files behind the devices: their partitions and whose files are in them; `rm -rf`, `cp -r`, what a detach or a crash does to them | `Host` |
| `Launcher` | abstract: what any launch script owes the host | |
| `PrepareQemu` | `prepare_Qemu.sh`, run again and again | `Disks`; `Launcher` as `L` |
| `RunRaspian` | `run_Qemu-raspian.sh` | `Disks`; `Launcher` as `L` |
| `HostSession` | both scripts on one host, and an operator | `Disks`; `PrepareQemu` as `P`, `RunRaspian` as `R` |
| `TwoRuns` | `prepare_Qemu.sh` twice in one directory | `Disks`; `PrepareQemu` as `A` and as `B` |
| `TargetBoot` | `inittab` and `rcS` | |
| `MCPrepareQemu`, `MCRunRaspian`, `MCHostSession`, `MCTwoRuns` | values of constants, symmetry, views | the module named |
| `Host_proofs` | lemmas about well-formed tables and files | `Disks` |
| `PrepareQemu_proofs`, `PrepareLauncher_proofs` | theorems about `PrepareQemu`; that it is a `Launcher` | `Host_proofs` |
| `RunRaspian_proofs` | theorems about `RunRaspian`; that it is a `Launcher` | `Host_proofs` |
| `HostSession_proofs`, `TwoRuns_proofs` | theorems about the compositions | `Host_proofs` |
| `HostSessionGuests_proofs` | what is booted in a session | `HostSession_proofs` |
| `TargetBoot_proofs` | theorems about `TargetBoot` | |

### How the modules read

In the modules of programs **`pc` is the line number of the next
command**; 0 means that nothing runs. An action executes the command at its line
and goes to the next line that changes or reads state: `Goto(29, 30)` of
`Mkfs` is line 29. Lines that only print have no place of their own, and
`mkdir -p` after an `rm -rf` is part of the same action, since a mount point
that `rm` could not remove is still a directory.

**`Host`.** `loop[l]` is the kind of file attached to a device, or "free".
`mounts[m]` is the sequence of devices whose partition is mounted on directory
`m`, newest last: a mount covers, an `umount` takes the last. Which free device
`losetup -f` returns is left to the kernel, hence arbitrary. A device detached
while a partition of it is mounted is "closing": it works until the last such
`umount`, and is free only then (`Gone`, `Umount`). A script that runs alone never
does this to its own devices (`OwnNotInUse` in the proofs); a `losetup -D`, or a
second run, may.

**`Disks`.** A script never names a partition by its file: it formats and mounts
partition 1 or 2 of whatever file is behind the device a variable names.
`behind[l]` is that file: the card, a release, or an unpacked image, of which each
device has its own (line 39 unlinks an image while an old run's device still has
it). `table[f][p]` says whether partition `p` of file `f` is missing, raw or formatted;
`fs[f][p]` is the set of those whose files it holds: `mkfs` makes it `{}`, `cp -r` adds the
source's set, the guest adds "guest", and a write-back of an old mount or a crash adds
"corrupt". `Has[x]` is what a build or release `x` comes with, of the things the scripts
need of one: two partitions, the boot files named in the scripts, and contents that fit the card.
`Forget` is what becomes of files when devices go.

**`PrepareQemu`.** The script fetches `../*[0-9]*.wic*bz2`, so `Fetch` takes a nonempty
set of archives out of `Deploys`, which the deploy directory may change to
between runs. `bunzip2` takes each archive to an image, stops at one that was
cut short (`torn`), passes over one whose image is there, and leaves what it unpacked
before. Line 42 lists the images and line 43 attaches what it found: two steps, since
another run may remove an image in between. The operator leaves `cfdisk` having made
no partition, one or both. Variables named "history" are
not in the script: they record the host at the start of the run and what the run
fetched, so that the properties can speak of them; `Exit` resets them together
with the shell variables.

Ends before line 78 come in three kinds. `CommandFails`, `Bunzip2Fails` and `CopyFails`
(together `MustEnd`) are commands that *must* fail in the state they find: no free loop
device, a partition that is missing, unformatted or busy, a deploy directory without
archives, not exactly one unpacked image, a build without the partition, the room or the
boot file the line needs, and, if somebody interferes, a device or a mount that is
gone. `Decline` is the operator's "no" when `mkfs.ext4` asks before it formats again.
`Fault`, `FaultInFetch` and `FaultInBunzip2` are what may happen to
any command: it refuses, QEMU exits with an error, the operator presses
Ctrl-C. In each case `set -e` ends the run
and nothing is undone. `HostCrash` is the one failure that does undo something:
devices and mounts are gone, any archive may have lost its end, and the card may
be inconsistent.

**`RunRaspian`.** The same, with releases for builds and `directory` for
`./raspios/boot`, which no command of the script creates. Several files matching the
wildcard make `$image` a string that names no file. `MustFail` lists, line by line, what
a release may lack: a formatted first partition (16), `bcm2710-rpi-3-b.dtb` (20), `kernel8.img` (21).
What a guest of this script writes to its release is not tracked.

**`Launcher`.** A script is idle, preparing, in its guest or cleaning up; it has
devices on lease, and devices it has leaked. A run that gives up while preparing
may leak what it has leased; once the guest has been booted, only a failure
that nothing in the state calls for can (`Fail`, counted in `failures`). The
refinement mapping stands next to `ImplementsLauncher` in each script's module:
the phase is read off `pc`, the leases are the devices in the shell variables
between attach and detach, and the leaks are all other devices that are not free.

**`HostSession`.** The actions of `PrepareQemu` and `RunRaspian` on the same
tables and files, each script with a `pc` and variables of its own,
interleaved at will. The operator detaches devices no script names, unmounts
what a script that does not run has left on its directories, restarts the host
between runs, and types `losetup -D` at any time (`Sweep`). After that a
variable may name a device that is gone, or one that by now has the other script's
file behind it. No script checks, and the model does not either: lines 29-30 of
`prepare_Qemu.sh` then format a release, line 16 of the other script mounts the
card, and guests are booted from the result. The history `lost` records the scripts to whom
that may have happened: a device was taken from them after their `losetup` and before
the commands that format or mount it (`PAwaits`, `RAwaits`). `swept` records that
`losetup -D` came in between at all. No failure is unprovoked here.

**`TwoRuns`.** Two copies of `PrepareQemu` on the same files and host. While one is
in QEMU the other cannot enter it: QEMU locks the image it writes to (`LockedOut`). As a
bound of the model, no run is started after one has ended early
until the host is (`MayStart`); runs on leftovers are what `PrepareQemu` is about. Should
both attach the same image, each device has a copy of its own here; nothing writes to
either.

**`TargetBoot`.** The files of `/etc` exist twice: `cache` is what processes
see, `disk` what a power cut leaves. A file reaches the card at any later time
(`Writeback`) or at an orderly `poweroff`. The `>` of line 12 truncates before it
writes, and the truncation alone may reach the card. rcS has no `set -e`: a
command that fails is passed over, and `failed` is the set of lines whose command did
(at most `MaxFailures` in one boot). Line 12 may fail having emptied its file, on a full card, or not
having touched it. A kernel with `CONFIG_DEVTMPFS_MOUNT`, which
`04_kernel_devices/vexpress_kernel_qemu.md:34` advises, has mounted `/dev` before rcS runs; its line 8
is refused then, and the file system is there all the same (`PowerOn`). The file
ends inside the `if` of lines 21-25, so `EndOfFile` writes nothing and ends rcS;
init does not look at its exit code.

### What is abstracted

File contents below the granularity of a build; messages and colours; the
geometry of the card; QEMU's machine options (that the installed QEMU accepts
`-cpu cortex-a7` for `raspi3b`, line 62, is assumed; one that does not makes `StartQemu` a `Fault` in
every run); everything the guest does but writing to its root. A release downloaded again
under the same name is taken to be a new copy of the same.

## 3. Properties and runs

### `prepare_safety` (4 devices, 2 builds, any set of archives, 1 fault)

- `TypeOK`: the shell variables name devices at every line that uses them, and nothing
  is behind a free device.
- `HostAccounted`: at every line, on every directory, the mounts are those found
  at the start with, on top, the run's own if it holds one there at that
  line; likewise every loop device. It follows that each `umount` of lines 55-74
  hits the run's own mount however many an earlier run has left underneath, and that
  the two `losetup -d` free its own devices. (It speaks of runs in progress; what a run that
  ends early leaves is the matter of `ImplementsLauncher`, `EndsForAReason` and `RetriesRecover`.)
- `BootsFetchedBuild`: while QEMU runs, kernel and device tree, the boot
  partition and the root partition are of one build, and it is the only one
  fetched in this run, provided no older run left the card mounted.
- `CompletedRunIsNeutral`: a step from line 76 to the end leaves devices and
  mounts as they were when the run started.
- `ImplementsLauncher`: every step of the script, of a failure and of the
  operator is a step of `Launcher` or none: at most the run's own devices are
  leaked, and after a guest only by a fault.

A run needs two devices and a run that ends early keeps at most two; four
devices let a complete run start on the leftovers of another and let the table
fill up. Two builds are what it takes to mix two; here they lack nothing. The fault is an
unprovoked one (of a command, a kill, a crash of the host); ends that the state provokes are
not bounded, so that any number of failed runs may precede a good one, e.g. on
a deploy directory that is empty or holds two archives, or on a card with one partition. Loop
devices and builds are interchangeable, so symmetry is sound (there is no liveness property in this
run).

### `prepare_ends` (2 devices, 6 builds, 1 fault)

- `EndsForAReason`: a run that nothing kills ends before line 76 only for one of
  these. `Leftover`, of earlier ends: no free device (27, 43), a card without its first (29)
  or its second partition (30), an archive cut short (41), an older archive that line 41
  unpacks besides the one fetched (43). `Given`, of this run: the operator declines to format (30), the deploy
  directory has no archive (40) or more than one (43), the build lacks its first partition (44), its
  second (45), fits no partition of the card (49, 50), or lacks a file QEMU is given (60).
  Anything else that runs cut off anywhere leave ends no run at any line: file systems mounted on the
  run's directories, the card or an image still attached, a card half filled, unpacked images.

One build is whole and each of the others lacks one thing a line needs (the device tree stands for
both boot files of line 60, which fail alike). The view leaves out whose files the card holds and the
histories of the host, which no guard and no disjunct of the property reads.

### `prepare_liveness` (3 devices, 2 builds, one archive at a time, 1 fault)

- `RetriesRecover`: guests are booted again and again, unless the operator again and again refuses
  to format or fetches builds that cannot be booted, or one of three leftovers is in the way: for ever,
  a card without its second partition (every run ends at line
  29 or 30) or an archive cut short (line 41); again and again, a `losetup` of line 27 or 43
  that finds no free device. So nothing else an earlier run leaves, of all the lines at which it
  may end, blocks later runs.

Fairness is weak fairness of `Script`: commands return, the QEMU session is
quit at some time, and the operator starts the script again. It is an
assumption about the operator, not about the code; none is made about clean-up,
reboots or the guest. The
deploy directory holds exactly one archive, as with a recipe that removes older images: with
two, every run ends at line 43, which `prepare_safety` includes. The builds are whole. The
leftovers are real: leaving out any of them, TLC finds the execution.

### `raspian_safety` (3 devices, 4 releases, 1 fault)

- `KernelMatchesDrive`: kernel and device tree given to QEMU are those of the
  release on the drive, whatever was copied or left mounted before.
- `HostAccounted`: at every line, devices and mounts are as the run found them, plus its own device
  at lines 16-27 and, on top of what older runs left, its own mount at lines 20-26. So a run that ends
  at lines 16-26, be it killed, without `./raspios/boot`, or on a release that lacks what
  the line needs, leaks no more than these; from line 30 on, nothing: unlike in `prepare_Qemu.sh`, a
  QEMU that fails leaves nothing attached.
- `ImplementsLauncher`: it is a launcher too, with one lease, returned before the
  guest.
- `TypeOK`: in particular, `mount` is reached only with a device in
  `raspiosImage`.

One release is whole and the others lack the boot partition, the device tree, or the kernel.
`Programs` here includes a program of the name in line 30, since otherwise no
run would get past it: the lines after 30 are what the run is about. That the
name does not exist is the matter of `raspian_starts`. Three devices hold the leftovers of
two runs and the device of a further one.

### `session` (3 devices, 1 build, 1 release)

- `LeasesKept`: unless `losetup -D` came in between, every device in a variable of
  either script is attached to that script's own file, however the two
  interleave.
- `MountsKept`: on a script's directories are the mounts its run found there and, on
  top, its own, if it holds one at that line, whatever the other script, the
  operator and `losetup -D` do: each `umount` takes the script's own mount. Unlike
  `LeasesKept` it needs no exception for `losetup -D`, since a device that is mounted
  outlives it.
- `SessionNeutral`: whenever no script runs and none has ended early, the host
  is clean, even if `losetup -D` was typed during the runs: a run that
  completes has had all its devices to the end, or they went with its last
  `umount`.
- `GuestsConsistent`: `BootsFetchedBuild` and `KernelMatchesDrive` hold also
  with the other script and the sweeping operator around, for a script from which no device was taken
  between its `losetup` and its `mount` (`lost`). In that window they do fail: the run that lost its
  device formats, mounts and boots the other script's file, in the model as in the code. So the
  window is all there is: at any other moment a `losetup -D` costs a script nothing it still needs.

Three devices are what the two scripts hold together at most; one less than
what they want after a leak, so that the full table is met as well. One build
and one release suffice, as mixing two is what `prepare_safety` and
`raspian_safety` are about; here a kernel of the wrong file would be one of the other
script's. Three bounds stand in `MCHostSession`. Releases have been resized before
(`MCInit`). `cfdisk` is left with both partitions made (`BothMade`); a card without is met in
`prepare_safety` and `prepare_ends`. A run that has lost its device is followed to its end, and the other
script with it, but no run is started on the damage (`NotOnDamage`). The view
leaves out `loop0`, those histories that no action and no property of this run
reads (of `rmounts0` all but the one directory `run_Qemu-raspian.sh` mounts on), and the two copied
files until a run overwrites them. Symmetry: loop devices. The proofs have none of these bounds.

### `two_runs` (4 devices, 2 builds, one archive at a time)

- `NoneLost`: while no run has ended early, each directory has as many mounts as
  there are runs between their `mount` and their `umount` of it, and each run finds
  its devices attached until it detaches them. The `umount` of one run
  may well take the other's mount; what counts is that it takes one.
- `GivenBackTogether`: when both have completed, the host is clean, although one
  may have detached a device with the other's mount still on it, which then lives on as
  "closing".

Four devices are two for each. What does *not* survive a second run is the
content of the card: its lines 11, 29 and 30 empty what the first has just
copied. No guide promises otherwise, so this is a limit of the script
and no finding; it is listed as a hazard without a property.

### `target_boot` (3 failing lines in each boot, unbounded number of boots)

- `ConsoleReady`: at the console, each of lines 6-9 that did not fail itself has its file system
  mounted and each of lines 16-18 its root entry in place, whichever other lines failed and
  wherever earlier boots were cut off; the host name is set if neither line 12 nor line 13 failed. With
  `CONFIG_DEVTMPFS_MOUNT` line 8 fails in every boot, and the rest holds no less.
- `OwnEntriesStay`: a root entry somebody chose, once on the card, is never replaced.
  (A password that had not reached the card may be lost by a power cut;
  the property is about `disk`.)
- `TypeOK`: in particular, no identity file ever has two root entries, the
  effect of `grep ... || echo ... >>` at lines 16-18.

The state space is finite but for `MaxFailures`; three lines failing in one boot include any two that
depend on each other (12 and 13) and a third.

### Runs that expect a violation

Each checks what a document or a comment of the repository says and finds that the
program does something else.

| run | statement | what happens |
|---|---|---|
| `prepare_cleans_up` | `03_virt_sdcard.md:119`: "When finished, always clean up" | a run that ends early skips lines 73-76 and keeps its device |
| `raspian_starts` | `README.md:11`, `:46`: the scripts run Raspbian images with `qemu-system-arm` or `qemu-system-aarch64` | line 30 starts `qemu-system-arm64`, which is neither |
| `target_hosts` | `rcS:20`: "simple /etc/hosts to make prompts nicer" | the file ends inside the block that would write it |

### Mutants

Next to some definitions stands a `mutant`, what a plausible slip would make of
it: reattaching a device that already has the card, formatting once, not
removing old images, `|| true` behind a command, a missing `losetup -d`,
`losetup -D` instead of it, mounting only if nothing is mounted, unmounting all
that is mounted, appending without `grep`. Each makes one property fail, which
shows that the property depends on that line of the code. They are in no
specification.

## 4. Proofs

### `prepare_Qemu.sh`

`PrepareQemu_proofs` proves for **every** set of devices and builds, every
`Deploys` and every number of faults, from the assumptions of the modules alone
(`LoopAssumption`, `FileAssumption`, `OriginAssumption`, `HasAssumption`, `DeployAssumption`,
`FaultAssumption`: devices, releases, the card and "none" are different things, "guest" and "corrupt"
are neither builds nor releases, the deploy directory holds sets of builds, the bound is a natural number):

- `TypeCorrect`: `Spec => []TypeOK`;
- `AccountsForHost`: `Spec => []HostAccounted`;
- `CompletedRunGivesBack`: `Spec => CompletedRunIsNeutral`;
- `BootsOneBuild`: `Spec => []BootsFetchedBuild`;
- `EndsOnlyForAReason`: `Spec => EndsForAReason`;
- `PrepareIsLauncher` (in `PrepareLauncher_proofs`): `Spec => ImplementsLauncher`.

The argument goes in layers, each inductive relative to the ones before.

1. `TypeOK` is inductive as it stands: it says where the variables name devices and that
   nothing is behind a free device (`DisksOK`, kept by `DisksNext`).
2. `SoundInv` is the kernel's bookkeeping: a free device has no mounts, a closing
   one has. With it, `OwnNotInUse` shows that lines 75 and 76 free their devices
   at once, and `OwnUmounts` that no `umount` of a run frees a device of an
   older one.
3. `LoopInv` and `MountInv` are the two halves of `HostAccounted` with what they
   need of each other. `LoopInv` adds that the device of the card and that of the Yocto image
   are different and were free when the run started; without it, releasing one at line 75 would
   not leave the other. Mounts are dealt with one directory at a time
   (`Accounted(m)`): a step appends to or cuts one sequence, and
   `SubSeq(Append(s, e), 1, Len(s)) = s` is all it takes.
4. `FileInv`: the card is behind devices attached as the card, an image of its own behind each
   of the others, and the card is never mounted where the image belongs, so that line 37 cannot empty
   it and line 49 cannot copy it onto itself.
5. `FetchInv` follows what was fetched: old images are gone after line 39, so
   the single image of line 43 is in the set of archives the run unpacked, and since
   every archive fetched is unpacked, it is the only one fetched. The file behind the
   run's own device is that build.
6. `CardInv` follows the card: empty after `mkfs`, and then the fetched build
   alone; `StaleWriteback` is impossible when no older mount is underneath,
   which is `MountInv`. With `Visible` being the run's own device, again by
   `MountInv`, this gives `BootsFetchedBuild`.

`CompletedRunIsNeutral` follows from `HostAccounted` at line 76. `EndsForAReason`
goes through the commands of `MustEnd` and `Decline` one by one (`FailsForAReason`): by `LoopInv` the
devices of the run are attached, and, free before, not mounted from an older run (`CardNotBusy`); by
`MountInv` what it has mounted is mounted; by `FetchInv` what it copies from is what the build fetched
has; and `TableInv` adds that lines 29 and 30 have made what lines 32 and 33 mount. What remains is
`Leftover` or `Given`. The refinement
takes each action to the step of `Launcher` it is (attach to `Acquire`, detach to
`Release` or `Finish`, `HostCrash` and `Reboot` to `HostRestarts`, ...) or to a
stutter. Two facts carry it: `LeaseHeld`, that the leases are just the devices
in the variables, none of them free, and `FailsPreparing`, that the commands from line 69 on
find what they need, so that only a `Fault` can end a run there.

### `run_Qemu-raspian.sh`

`RunRaspian_proofs` proves for every set of devices, releases and installed
programs and every number of faults, from the assumptions of `Disks` and `FaultAssumption`:

- `TypeCorrect`: `Spec => []TypeOK`;
- `AccountsForHost`: `Spec => []HostAccounted`;
- `BootsTheDrive`: `Spec => []KernelMatchesDrive`;
- `RaspianIsLauncher`: `Spec => ImplementsLauncher`.

The inductive invariant is
`IInv == TypeOK /\ SoundInv /\ LoopInv /\ MountInv /\ FilesInv /\ DriveInv`.
`LoopInv` and `MountInv` are the halves of `HostAccounted`, with the device having been free when the run
began. `FilesInv` says that a release is as it came (nothing of this script writes to one), and `DriveInv`
carries one release from the name found at line 13 over the file behind the device to the two copied
files: `SourceIsOwn` shows that lines 20 and 21 read the run's own mount, whatever it covers.

### Both scripts, and two runs

`HostSession_proofs` and `HostSessionGuests_proofs` prove all four invariants of the run
`session`, for every set of devices, builds, releases and programs, whatever each build or release
lacks, from the assumptions of `Disks` and `DeployAssumption`. What each
script alone guarantees cannot be used, and would not hold here (`HostAccounted` compares
the whole host with the start of one run).

- `KeepsLeases`: `Spec => []LeasesKept`. The invariant (`IInv`) adds only types: each
  script takes free devices and detaches its own, and an `umount` frees only closing ones.
- `KeepsMounts`: `Spec => []MountsKept`. To the host, a step of a script is one of a
  handful: nothing, a start, an attach, a mount, an umount, a detach, an end
  (`PMoves`, `RMoves`; `PrepareMoves` and `RaspianMoves` say there is no other). So what
  follows is not argued once per action. `Kernel` says that the two tables are well formed and
  agree (`Sound`); every move keeps it, `losetup -D` included. `MInv` is `MountsKept`
  with the type of the histories.
- `LeavesNothing`: `Spec => []SessionNeutral`. While no run has ended early (`Clean`),
  no mount is there but those the scripts hold (`OnlyMounts`), and no device that is not free
  but is named by a script that will still detach it (`OnlyLeases`). Which script is left open:
  after a `losetup -D` the variable of one may name the other's device, and the
  first to detach it finds it mounted and leaves it "closing", or free. `InUseIsHeld` is
  the key: a device in use is named by a script that has not yet come to its `umount`, which
  comes before its detach.
- `GuestsGetOneBuild` (in `HostSessionGuests_proofs`): `Spec => []GuestsConsistent`. A device
  is at risk between attach and first mount alone. From the mount on it is in use, by
  `MInv`, so not free, by `Kernel`, and cannot change hands (`CardThere`, `WicThere`,
  `BootThere`). Before it, its going does not go unnoticed (`NoticedGone`): it puts the
  script into `lost`. So `HeldInv`: a run not in `lost` has its own file behind its device for as long as
  it uses it. On that rest `FetchInv` and `CardInv`, those of `PrepareQemu_proofs`, and `DriveInv`; to
  keep them against the other script's steps takes that it writes to no file of this one unless its own
  device was taken, and that is why a `prepare_Qemu.sh` that lost its device puts both scripts into `lost`
  (`ReleasesKept`).

For two runs of one script:

- `TwoRuns_proofs!LosesNothing` and `GivesBackTogether`: `Spec => []NoneLost` and
  `Spec => []GivenBackTogether`, for every set of devices and builds. `Core` adds to
  `NoneLost` that the devices of the two are different (`Apart`), that nothing
  else is attached (`Owned`), and the bookkeeping of the kernel (`Sound`): with all counts
  zero nothing is mounted, hence nothing closing, hence all free. `OneKeeps`
  and `OtherKeeps` are the same argument with the roles exchanged.

### `rcS`

`TargetBoot_proofs` proves `TypeOK`, `ConsoleReady` and `OwnEntriesStay` for every `MaxFailures`.
`BootInv` is what each line of rcS has established, unless it is in `failed`, by the time a later one is
reached (file systems, host name and entries in a part each), and `OwnInv` that an
entry of the card is never hidden by something in the page cache that could
overwrite it.

### Checked by TLC only

`RetriesRecover`: liveness and `ENABLED` are out of the prover's reach. Everything else the passing
runs check is proved.

## 5. Not modelled

- *The sysroot.* By far most C in the repository is the vendored
  `rpi3b-tools/rootfs/usr/include`: headers of glibc, Linux and libdrm that declare
  types and constants. They hold no state and no control flow of this project, and
  the scripts do not use them, so no definition here stands for any of them. What the project
  itself has written in shell is covered in full, but for the login environment.
- *Between two runs in one directory*: that both find no `rootfs.img` and
  create it (lines 13-23, interactive); that one removes a directory between the
  other's `mkdir` and `mount`, or part of a tree while the other copies it. A command of
  one run is atomic for the other.
- *Faults in the compositions.* `HostSession` and `TwoRuns` have no unprovoked
  failures; each script has them in its own module. (Runs that end early are there all
  the same: at commands that must fail.)
- *Partial `cp -r` at lines 49-50.* A failure inside it ends the run with some
  of the files of the build on the card; the next run formats the card, and no guest
  is booted in between, so the model lets such a failure happen before or after the copy.
- *`/etc/profile` and `profile.d`*: assignments of constants,
  with no order and no state to get wrong. (The console shell of `inittab:4` is no login shell and does
  not read them.)
- *Boot binaries and `config.txt`, `main.cpp`, guides*: no logic of this project, or prose.

## 6. State of the project

All the code of the repository that changes state is modelled, alone and in the
compositions it can meet, and all safety and action properties of the passing runs are
proved. What could still be added is finer grain inside single commands (a
partial `cp -r`, `rm -rf` next to a `mount`) and faults in the
compositions; neither is expected to break a property listed here, since
the ones about runs that end early are already restricted to, or true of, such runs.

## 7. Running the checks

    tlc -workers 2 -config prepare_safety.cfg MCPrepareQemu
    tlc -workers 2 -config prepare_ends.cfg MCPrepareQemu
    tlc -workers 2 -config prepare_liveness.cfg MCPrepareQemu
    tlc -workers 2 -config raspian_safety.cfg MCRunRaspian
    tlc -workers 2 -config session.cfg MCHostSession
    tlc -workers 2 -config two_runs.cfg MCTwoRuns
    tlc -workers 2 -config target_boot.cfg TargetBoot
    tlapm Host_proofs.tla
    tlapm PrepareQemu_proofs.tla
    tlapm PrepareLauncher_proofs.tla
    tlapm RunRaspian_proofs.tla
    tlapm HostSession_proofs.tla
    tlapm HostSessionGuests_proofs.tla
    tlapm TwoRuns_proofs.tla
    tlapm TargetBoot_proofs.tla

Deadlock is checked in every run. `PROJECT.json` lists the components, the
runs, the mutants, the theorems, the findings, the hazards and, under "map", the
source lines of every definition.
