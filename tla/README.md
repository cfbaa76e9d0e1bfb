# A TLA+ model of the Buildroot tree for Ingenic printers

The repository is a Buildroot 2014.05 with board support for printers built on
Ingenic SoCs. Most of its C code is a copy of U-Boot, and most of its files are
package recipes. Its own logic is smaller: the make infrastructure that builds
packages and images, the helpers around it, a kernel driver for the SADC
converter, and the parts of the boot loader that choose what to boot and read
it from NAND flash. This project models all four and checks them with TLC. All
safety properties that hold, the refinements of the abstract specifications of a
build and of the boot loader's record store included, are also proved with
TLAPS, for instances of any size.

Contents: [inventory](#inventory) · [modules](#modules) · [runs](#runs) ·
[proofs](#proofs) · [findings](#findings) ·
[limits](#what-is-not-modelled) · [plan](#plan)

## Inventory

| Component | Source | State | Operations | Hard behaviour | What makes it correct |
|---|---|---|---|---|---|
| generic package infrastructure | `package/pkg-generic.mk` | stamp files and their ages, build trees, installed files | the steps download … install, `<pkg>-rebuild`, `-reconfigure`, `-dirclean` | failure, kill or interruption between any two commands; edits of overridden sources during a build; partial rebuilds | what make skips is complete; dependencies are there when used; a rebuild takes the edits and no more |
| top Makefile, images | `Makefile`, `fs/common.mk` | target directory, images | `world`, `target-finalize`, rootfs rules, `clean` | images made after interrupted installs | an image holds complete, current packages |
| apply-patches | `support/scripts/apply-patches.sh` | patched tree | apply a list of patches | not restartable | no patch is lost or applied twice |
| download helpers | `package/pkg-download.mk` | download directory shared by builds | eight methods, three sites in turn | lost transfers, interruption, parallel builds | the archive that is extracted is complete; a retry helps |
| SADC driver core | `drivers/mfd/jz_adc_v13.c` | ENABLE register, reference count, interrupt mask | enable, disable, demultiplex | channels concurrently in the core, register updates with and without lock | enabled channels convert, unused converter is off, as far as the missing lock allows |
| SADC channel devices | `drivers/mfd/jz_adc_aux.c` | open and enable counts, completion | open, release, read, ioctl | threads on one completion, timeouts, unbalanced ioctls | counts balanced, no old sample returned, calls return |
| SPL hardware information | `sunmi/x2600/u-boot/common/spl/hwinfo.c`; image from `sunmi/x2600/hwinfo/` | two copies in NAND | find, verify, choose a copy; boot flag | bad blocks, wear, updates cut by loss of power | the record changes as a whole; the flag selects the partition |
| SPL NAND loading | `.../spl/spl_sfc_nand_v2.c` | NAND pages and blocks | load, write, block check, erase | ECC errors with retries, marked blocks, no end of partition | what was written is read back; blocks are judged correctly; calls end |
| Kconfig | `support/kconfig/*.c` | symbols, expressions | evaluate, choose, read and write `.config` | select against dependencies, choices | a written configuration reads back to itself |
| user table | `support/scripts/mkusers` | passwd and group files | five passes over the table | ids exhausted or given twice; runs for several images, interrupted runs | ids unique, rows honoured, a further run changes nothing |
| graph-depends | `support/scripts/graph-depends` | dependency lists | collect, reduce, draw to a depth | shared and circular dependencies, names make has no rule for, depth limit | every dependency is there; the script ends |
| makedevs, toolchain wrapper, merge_config, board scripts | see `PROJECT.json` | none that outlives a call | one pass each | none | output as specified |

How they interact: the top Makefile asks the package infrastructure for the
packages in `TARGETS`; each package's first step calls the download helpers and
its patch step calls `apply-patches.sh`; when all packages are installed, the
top Makefile generates the image, calling `mkusers` for each kind of image on the
same target directory; `graph-depends` asks make for the dependencies it would
use. The packages meet through the file system
only: stamp files, the staging and target directories, and the download
directory, which several builds may share. On the device, the SPL finds the
hardware information with `sfc_nand_block_check` and `sfc_nand_load`, chooses
the kernel partition from its boot flag and loads it with `sfc_nand_load`; the
booted system updates the hardware information. The driver's channel devices call
the core through the MFD cell's `enable` and `disable`, and the core calls back
through the interrupt.

The hazards, each at its line and with the properties aimed at it, are listed
in `PROJECT.json`.

## Modules

| Module | Models | Composition |
|---|---|---|
| `PackageStore` | what a build promises: packages that are there as a whole or not at all, and images made of them | abstract |
| `PkgGeneric` | packages, make, user, image | implements `PackageStore`; steps are abstract commands; the download step stands for `Download` |
| `PkgGeneric_proofs` | theorems about it | extends `PkgGeneric` |
| `MCPkg` | instances: library and application, with or without compiler cache | extends `PkgGeneric` |
| `Download` | builds that share a download directory | |
| `Download_proofs` | theorems about it | extends `Download` |
| `MCDownload` | scenarios: one build with faults, two builds side by side | extends `Download` |
| `JzAdc` | driver core and channel devices together, since they share the interrupt and the counts | |
| `JzAdc_proofs` | theorems about it | extends `JzAdc` |
| `MCAdc` | symmetry of channels and threads | extends `JzAdc` |
| `SfcNand` | NAND access of the second program loader | |
| `SfcNand_proofs` | theorems about it | extends `SfcNand` |
| `MCSfcNand` | instances | extends `SfcNand` |
| `BootStore` | what the hardware information promises: one record, replaced atomically | abstract |
| `Hwinfo` | the two copies, boot selection, updater, flash | implements `BootStore`; its `Seek` and `Load` are what `SfcNand`'s block check and load return for a block in a given state |
| `Hwinfo_proofs` | theorems about it, the refinement among them | extends `Hwinfo` |
| `MCHwinfo` | boot flags as bytes and as text | extends `Hwinfo` |
| `Mkusers` | the user table script | |
| `Mkusers_proofs` | theorems about one run | extends `Mkusers` |
| `MkusersRerun_proofs` | theorem about repeated and interrupted runs | extends `Mkusers_proofs` |
| `MCMkusers` | tables and target directories | extends `Mkusers` |
| `GraphDepends` | the dependency graph script | |
| `GraphDepends_proofs` | theorems about it | extends `GraphDepends` |
| `MCGraphDepends` | dependencies of three packages and the toolchain | extends `GraphDepends` |

Operators described as a mutant or as "a variant of" another are deliberate
mistakes; they are used to see that a property notices them, and no specification refers to them.

### PkgGeneric

State. `stamp[p]` holds the steps whose stamp file exists. `newer[p]` holds the
pairs of adjacent steps whose stamps are in the "wrong" order of age; this is
all make ever asks of modification times. What a step leaves on disk is
abstracted to `from[p][s]`, the version of the package source it was made from,
and to `partial[p]`, the steps whose last run did not get to its end. `dirty`
holds the trees with a patch applied. `cmd`, `rmq`, `want`, `considered` and
`jobs` belong to the make invocation in progress, and vanish with it.

The rules. `Steps`, `Rule`, `OrderOnly` and `SourceStep` are the dependency
lines of `inner-generic-package`; `Goal` is what an invocation has to bring up to
date. GNU make itself is external and modelled as its manual describes it:
prerequisites first, a recipe runs if its target is missing or a normal
prerequisite is newer, order-only prerequisites are made but their age is not
looked at, an interrupted make deletes the target the running recipe has
modified, a failing recipe leaves it. `.NOTPARALLEL` is set, so one recipe runs
at a time. Modification times are distinct: two steps never touch their stamps
within one clock tick.

Actions. `Start` and `Touch` bracket the commands of a step; between them the
step counts as partial. `StepEnd` is the hook after the touch: an interruption
there deletes the stamp of a step that is complete. `RemoveStamp` is one
`rm -f` of `-clean-for-rebuild`. `Fail` stands for a failing command and for a
killed make, `Interrupt` for SIGINT; both may come at any moment. `Edit` may
come at any moment too; the rsync of an overridden tree picks up some version
between the one at its start and the one at its end. Extracting again over a
patched tree may or may not restore every patched file, so both are possible.
`Clean` and `Dirclean` are single `rm -rf` commands and atomic in the model. In
the code they are not: `make clean` (`Makefile:848`) removes the target, images
and host directories before the build directories, so that a clean that is cut
leaves every stamp and nothing installed, and `-dirclean` can leave stamps
without files. After such a cut the properties below do not hold; they are about
interruptions of builds. The rsync of an overridden tree (`pkg-generic.mk:120`)
has no `--delete`: an edit that deletes a file is outside the model.

Properties. `StampsHonest` says what stamps are for: if make would skip a step
and all that comes before it, the results are complete and of one version.
`DepsInstalled`, `ImageSound` and `RebuildTakesEdits` are what packages, images
and developers rely on. `RebuildKeepsConfiguration` is the manual's description
of rebuild. `EventuallyBuilt` is progress.

Refinement (`WholePackages`). `PackageStore` has for each package the version
that is installed, if there is one. A package is installed at once, in one
version no newer than its source, when the packages it needs are installed; it
may be lost at any time, but never turns into another version while it is there;
an image holds the versions that are installed when it is made. The mapping goes
by the stamps, as make and its users do: `Installed[p]` is empty unless every
step of `p` is up to date, and otherwise holds the versions of all that its
install steps left, 0 standing for what is not complete, so that a package put
together from two versions or cut half-way would show. `Released` is the image
once it is complete. What a package needs are its dependencies and the host
prerequisites, as far as they install anything. The touch of the last stamp of a
package is `Provide`; removing a stamp, `-dirclean`, `clean`, an interruption
and beginning an image are `Lose`; nothing else is seen.

### Download

State. Names in the download directory refer to inodes, so that a writer keeps
its file when another build moves the name away. `whole` holds the inodes with
the complete archive, `writer[i]` the last build to truncate inode `i`. Two
builds that write one inode write the same bytes at their own offsets, so the
file is whole when the last one to truncate it is done.

Actions. One per command of the methods: the `test -e`, opening and writing the
output, `mv`, `rm -f`, the checkout and the `rm -rf` of a working copy.
`Attempts` is the order of `DOWNLOAD_INNER`. `TransferFails` is a failing
command: the method goes to its error branch, and the next site is tried.
`Interrupt` ends the build between any two commands.

Properties. `ArchiveUsable` (the download step ends with a complete archive),
`TruncatedOnlyDirect` (what `.tmp` achieves), `EventuallyDownloaded` (progress,
with its one exception: a working copy that git or svn refuse to overwrite).

### JzAdc

State. Per channel the two counts, the disable depth of the interrupt, the
completion's count and, for each reading thread, whether an interrupt has come
since its read began. In the core the ENABLE register, as a power-down bit and
a set of engine bits, and `clk_ref`. `pc[c]` is where the holder of the
channel's mutex is, `val[c]` the register value it has read. The two other bits
that `jz_adc_enable` sets, the clock dividers and the voltages are left out;
no other code looks at them.

Actions. A system call on a channel is cut at every access to state that other
channels share: the atomic count, each read and each write of the register. The
update in `jz_adc_set_enabled` excludes others that take the lock; those in
`jz_adc_enable` and `jz_adc_disable` exclude nobody, as in the code. Read takes
no mutex. Threads on different channels interleave anywhere, as on an SMP or
preemptive kernel. The kernel's mutex, spinlock, completion and interrupt depth
are external and modelled by what they do; the use of the same spinlock by the
interrupt mask, with interrupts off, is one step with the change of the depth.

Properties. `RefCountExact` and `IrqBalanced` relate the counts of core,
interrupt and channels, although user space may call ADC_DISABLE as often as it
likes. `OffWhenUnused` and `Powered` relate the register to the counts.
`OffWhenUnused` holds under every interleaving of the unlocked updates.
`Powered` does not: if a channel is counted while another one is between its
change of `clk_ref` and its write of the power bit, the converter can be switched
off under an enabled channel, or an engine bit be lost. The history variable
`raced` records exactly this overlap, and is reset when the converter is next
switched on from off with no such overlap. `Powered` says that nothing else goes
wrong: not the locked updates among each other, not those beside an unlocked one,
not a channel that stops while another one is switching. `FreshSample` is about
reads, `CallsReturn` about progress.

### SfcNand

State. `bad` and `weak` are what the flash is like: blocks with a mark, pages
that can no longer be read; `faults` counts the passing ECC errors still to
come. Addresses count pages and the content of a page is its number in the
image: all loops move by whole pages, as long as a transfer starts on a block
boundary. `pc` names the function that runs, and `addr`, `count`, `retry` and
`buf` are its local variables. `fails`, `given` and `missed` are history: reads
failed in a row, blocks this call gave up because of ECC errors, and whether the
writer of the image went past a block that carries no mark.

Actions. One per branch of the loops: a marked block, a retry, giving up, a page.
`spinand_read_page` gives the possible results of a read; the ECC status is
looked at before the mark, and the mark on the first page of a block only.
`retry_count--` in a condition leaves -1, which the following branch turns to 5
again: the model has no state in between. The writer makes no retries. It reads
the mark into an unsigned variable (`:368`), in which the -1 of an ECC error is
greater than 0, so that it skips a block on one ECC error as it does on a mark,
from the page at hand to the same page of the next block. `OffEnd` ends a transfer whose address
has left the device. Between calls a page may decay, and power may go in any
call.

Properties. `ReadBack`: reader and writer step over the same blocks, so what was
written is what is read, unless one of them has gone past a block because of ECC
errors: the load, after its retries (`given`), or the writer, at once
(`missed`). `ReadInOrder` covers the latter case, in which the load reads pages
that were never written: the pages of the image still come in order, and none is
missing before one that was read. `CheckVerdict` is what `hwinfo_init` builds on.
`OffEndOnlyWhenShort` says that a transfer leaves the device only if the blocks
neither marked nor given up are too few (the writer's skips count as given up),
and `CallsEnd` that every call ends.

### Hwinfo and BootStore

State. `state[b]` and `data[b]` are the blocks of the two regions; a copy cut
while it is written has a wrong checksum (`Garbage`). A block that has become
unreadable is of one of three kinds, which the code treats differently: on the
first page of the record the load goes to the next block, on a later page it
mixes two blocks, behind the record only the block check notices. `kernel` is
the partition that was booted and `mem` the record left in memory for the
kernel. The value of every other field is left out: none of them decides
anything here.

Actions. `hwinfo_init` is the whole boot: two scans, two loads, the choice of
the copy, the flag and the partition. It runs alone and writes nothing to flash,
so it is one step. The updater belongs to the booted system, is not in the
repository and is modelled from what the loader needs: it rewrites one copy at
a time (`Held` is how it sees a copy), never the newer and never the only one,
and counts up (`hwinfo.h`: "write once, add once"); it may also restore a copy
without changing the record. `WearOut` marks the block it cannot write, `Decay`
makes a block unreadable while both copies are there, `PowerOff` may come at any
moment. At first the record has been written to one region or to both, with an
empty boot flag, as `hwinfo_bin_generate.sh` makes it.

Refinement. `BootStore` has one record `info`, the value `new` an update is to
give it, whether part of the memory is `lost`, and the booted partition. The
mapping reads the record as what `hwinfo_init` would find if the power went
now: `info <- Found(state, data).flag`, and `lost <- decays > 0`. `Erase` is
`Request`, `Program` is `Update`, `hwinfo_init` is `Boot`, `Decay` is `Lose`;
`WearOut` is a stutter, since the block it marks holds no valid copy. Before any
loss the record can change only to `new`, in one step, and only while the
system runs; afterwards (`Lose`) the older copy may be found, but it is still a
record and the boot still follows its flag. `SurvivesOneLoss` bounds what such a
loss costs: one update.

### Mkusers

State. `passwd` and `shadow` hold the same users, `group` and `gshadow` the same
groups, so each pair is one table (`uid`, `ugid`; `gid`, `members`). `main` lists
the five passes over the table of users; `pass`, `line` and `sub` say which of
them is running, at which row and at which of its additional groups. `image` is
what the last complete run left and `cuts` the number of runs interrupted since.

Actions. `add_one_group` and `add_one_user` are one call each, with every check
and failure; a user whose home directory is refused has been removed by then.
`Skip` is a row that a pass goes past. `Rerun` is the next image. `Interrupted`
may come between two calls or within one, between the removal of the old entry
and the writing of the new one; the next run finds the files as they were left.
Tables with a uid below -1 are excluded: both passes over the users go past such
a row without a word, so it can be neither honoured nor refused.

Properties. `UniqueIds` and `TableHonoured` are about the order of the passes and
about rows that disagree. `RerunStable` is about the files the script finds there
from its own earlier runs: a further run neither fails nor changes anything. A
run after an interruption may give the entry that was being rewritten another
automatic id, since the removal has lost the old one, and fails only if no
automatic id is left. After two interruptions in a row it may also fail for
another reason: two groups have been lost, the second may come back first and get
the gid of the first, and the users of the first, whose entries still have that
gid, are refused. This is why the property stops at one.

### GraphDepends

State. The lists of the script, as sets: the order in which make names the
dependencies of a package is open, and the model draws them in any order.
`stack` holds the active calls of `print_pkg_deps` with the edges each still has
to draw.

Actions. One level of `get_all_depends`, `remove_redundant_deps` as a whole, one
pass of the loop in `print_pkg_deps` or a return from it. `get_depends` exits
if make fails or does not print one line for each name (phase "error"); this is
what happens for targets without a `show-depends` rule, `unanswered` in the
model. Nothing keeps dependencies from being circular, since `<pkg>-show-depends`
only echoes a list, so graphs with circles are considered too. The targets of
the full graph always include the toolchain. If `show-targets` itself fails the
script ends with a Python error before it has any state.

Properties. `CollectsAll` compares the edges collected level by level with those
of everything the root needs (`Needs`, the least set that holds the roots and
its own dependencies), and says that the script gives up exactly if one of these
has no answer. `NothingLost` says that the reduction cuts nothing off, if the
graph is acyclic: in a circle of targets each makes the edge from the root to
the next one redundant, and all of them can disappear. `DepthRespected` says that
no package beyond the depth limit is drawn (`PathTo` gives the path),
`Terminates` that the script ends, on circular graphs too, because each package
is asked for and drawn once.

## Runs

| Run | Shows | Bounds |
|---|---|---|
| `pkg_safety` | the safety properties, the refinement of `PackageStore`, progress | a patched library and an overridden application that needs it; one fault, two requests, one edit. One fault can cut any step of either package at any point, and the requests and edit can come before or after it, during a build too for the edit |
| `pkg_plain` | host prerequisites; rebuild without override | three packages, one fault, one request |
| `pkg_override` | finding 1 | no faults |
| `dl_sites` | every method and every configuration of the sites; two builds and one download directory; progress | one build with three faults, enough to fail at every site of one configuration, or two builds with wget at every site and no faults beside the collisions |
| `dl_parallel` | finding 2 | two builds with wget |
| `adc_counts` | counts, interrupt depth, progress | two channels with full interleaving, `enable_count` from -2 to 2: it passes through 0 and 1 from either side |
| `adc_power` | the register, reads | two channels with full interleaving, which is enough for every overlap of two updates (the theorems cover more channels); three threads, so that one can clear and one consume the completion that a third waits for; counts from -1 to 1; channels and threads are interchangeable |
| `nand_load` | NAND access | four blocks of two pages, the partition starting at the second; every set of marks; an image of three pages, so that it ends inside a block and can run off the end; two retries, four passing errors and one decayed page: enough to use up the retries of a block and meet errors in the next |
| `hw_store` | refinement of `BootStore`; one unreadable block | two blocks per region (four in the code), so that a copy can move once and a region can be used up, any of them marked; three updates, so that each copy is rewritten and the first again; one decay |
| `hw_flag` | finding 3 | three blocks per region, flags as text |
| `users_tables` | the user table | all pairs of rows over two users and two groups, with fixed ids inside and outside of an automatic range of two ids, and rows the script refuses; three target directories, one with an automatic gid taken, so that the range can be used up; four runs, so that an interruption can come before and after a complete run and be followed by another one |
| `graph_full` | the dependency graph | all acyclic dependencies of three packages and the toolchain, and all of these with one edge added that closes a circle; one package with and without an answer; without limit and with depth 2 |

Bounds are constants: `MaxEdits`, `MaxCmds`, `MaxFaults` (`PkgGeneric`),
`MaxInode` and the faults of each member of `Scenarios` (`Download`), `MaxCount` (`JzAdc`), and the completion's
count is cut at the number of readers, which can consume no more of it.
`MaxInode` is never reached: a build creates a new file only after a name was
moved or removed, and five are enough for three faults or for two builds.
`MaxWeak`, `MaxFaults` (`SfcNand`), `MaxCount`, `MaxDecay` (`Hwinfo`) and
`MaxRuns` (`Mkusers`) are bounds too. Every run checks deadlock but those of the
two scripts, which come to an end.

Fairness. `PkgGeneric!FairSpec`: make goes on until it ends, and the user calls
it again; faults are bounded but not excluded. `Download!FairSpec`: commands
end, and whoever has not finished a download calls make again. `JzAdc!FairSpec`: strong
fairness for each thread in the kernel, which is what a fair scheduler and a
fair (ticket) spinlock give; nothing is assumed of user space, of interrupts or
of readers. `SfcNand!FairSpec`: the loop of a call goes on, since the loader is
the only program that runs; nobody has to call it. `GraphDepends!FairSpec`: the
script goes on.

## Proofs

`PkgGeneric_proofs` proves for every set of packages, dependencies, install
steps and overrides and for every value of the bounds:

* `TypeTheorem`: `TypeOK`, with the facts that only steps a package has are
  wanted, considered or run;
* `HonestyTheorem`: `StampsHonest`;
* `DepsTheorem`: `DepsInstalled`;
* `ImageTheorem`: `ImageSound`;
* `EditsTheorem`: `RebuildTakesEdits`;
* `KeptTheorem`: rebuilding a package that is built and not overridden does not
  configure it; from it `KeepTheorem`: `RebuildKeepsConfiguration`, where no
  source tree is overridden. With an override it fails (finding 1);
* `WholeTheorem`: `WholePackages`, the refinement of `PackageStore`.

`StampsHonest` speaks of the chain of steps that end in one step, and is not
inductive: it says nothing of a recipe that is about to complete such a chain.
The inductive invariant is local instead. `StampInv`: a step that is up to date
is not partial; a stamp that is not older than that of a prerequisite comes from
the same version; the source step has a version once it has a stamp.
`ConsideredInv`: what make has been through in this invocation is up to date,
together with its prerequisites, order-only ones included. `JobInv`: one recipe
runs, its prerequisites have been gone through, and its own step is partial
until the touch. `PhaseInv`: stamps are removed before anything else is done.
`StampsHonest` then follows by walking the rules from a step back to the source
step (`ChainSound`); `Chain` is a least closed set, so this needs no recursion.
`DepsInstalled` follows because the packages in use are among those gone
through. For the three action properties the invariant is extended. `ImgInv`:
the image is begun only once everything it is made of is made, and nothing
changes until it is done. `EditInv`: no recipe of the package being rebuilt
reads sources older than the request, and the rsync stamp is removed before
anything else or is younger than the request. `KeepInv`: the steps up to
configuring stay up to date during a rebuild, since they depend on each other
only and none of the stamps the rebuild removes or touches is theirs.

For `WholeTheorem`, `FromInv` adds that nothing is made from a source newer than
the current one. Whatever a package installs, all of its steps are required
(`UptoAll`), so that it is there exactly if they are all up to date (`Here`),
and what is there is one version because the stamps are honest (`HereSound`).
Only a touch can make a package appear. It cannot be the touch of a step before
configuring, which leaves the next step out of date (`LateStep`); from
configuring on, make has been through what the package needs, which is
therefore there (`ConsideredHere`). All other steps leave a package alone or
take it away (`LoseStep`), and the image is made when everything it holds has
been gone through (`ImageStore`).

The theorems use that one recipe runs at a time. Circular dependencies are
outside the model: GNU make drops one of the edges with a warning, the model
waits for ever.

`JzAdc_proofs` proves for every finite set of channels and readers and any
`MaxCount`, under full interleaving:

* `TypeTheorem`, `RefCountTheorem`, `IrqTheorem`. `RefCountExact` speaks of
  quiet states only; the invariant says at every program point which channels are
  counted (enabled ones and those between increment and decrement) and that
  `clk_ref` is the cardinality of this set. Every step leaves the set alone, or
  adds or removes the stepping channel;
* `OffTheorem`. With no channel counted, the power is off or a thread is on its
  way to write the power-down bit, whatever else it has read (`OffInv`): every
  other thread that is about to write the register is counted;
* `PoweredTheorem`. The lock excludes two threads in `jz_adc_set_enabled`
  (`LockInv`). Unless `raced`, a thread that switches the power does so alone and
  no other channel is counted (`AloneInv`); therefore what any thread has read of
  the register is still in it when the thread writes, and the register has the
  engine bit of each channel past its update, and power if a channel past the
  switching is counted (`RegInv`). The step that resets `raced` finds no other
  channel counted and none switching, so the invariant begins anew;
* `FreshTheorem`: a positive completion count implies that every waiting reader
  has seen an interrupt since it began.

`Download_proofs` proves `TypeTheorem` for any scenarios and `TruncatedTheorem`
(`TruncatedOnlyDirect`) for any number of sites, faults and calls, under the
hypothesis `Separate`: one build, or no faults. The hypothesis is needed, and is
what `dl_sites` checks: of two builds, one can be about to move the temporary
file when the other truncates it and is cut. The invariant is one of two. For
one build that only uses wget: the archive is whole and is not the temporary
file, which only that build writes. Without faults: whoever truncated an
incomplete file last is still writing it.

`SfcNand_proofs` proves for devices, partitions and images of any size and any
number of retries, marks, decayed pages and errors:

* `CheckTheorem` (`CheckVerdict`): the invariant says that a check has seen every
  page before the one at hand, and that retries and failures add up;
* `OffEndTheorem` (`OffEndOnlyWhenShort`): the address is ahead of the pages
  transferred by one block for each member of a set of marked or given-up blocks
  (`SkipInv`), and behind the end of the device this set leaves too few;
* `ReadInOrderTheorem` and `ReadBackTheorem`: the usable pages of the partition
  that are not erased hold the image in order, with none left out before another
  one, and none of them is erased before the end of the image unless the writer
  went past an unmarked block (`FlashInv`); the buffer holds what the usable
  pages before the address do (`ReadInv`). For this the loops must never enter a
  marked block behind its first page, where the mark would not be seen
  (`AlignInv`); that is so until a block without a mark has been gone past;
* `TypeTheorem`.

`Hwinfo_proofs` proves `TypeTheorem`, `LossTheorem` (`SurvivesOneLoss`) and
`StoreTheorem` (`AtomicStore`, the refinement of `BootStore`) for regions of any
size, any flags and any `MaxCount` and `MaxDecay`. Lemmas say what the scan, the
load and the choice find in flash of any condition. The invariant: the copy of a
region is in its first good block and in no other (`FirstOnly`); one copy is
always held, no held copy is more than one update old, and equally old ones are
equal (`CopiesInv`); while one copy is written, the other is held and is what
the update starts from (`TargetInv`). A step then maps to the step of
`BootStore` named above, because it changes what a boot would find only where
the new copy becomes complete.

`Mkusers_proofs` proves `TypeTheorem`, `UniqueTheorem` (`UniqueIds`) and
`HonouredTheorem` (`TableHonoured`) for every table, target directory and range
of ids. Neither property holds during a run. The invariant says where the run is
(`PosInv`), that uids are always distinct (`UidInv`), that groups share only a
gid that some row insists on (`GidInv`), and that rows past their passes are
honoured (`GroupInv`, `UserInv`); at the end every row that insists on a gid has
passed the check that no other group has it.

`MkusersRerun_proofs` proves `StableTheorem` (`RerunStable`). Its invariant
follows what a run rewrites: a group that has been added again has exactly the
members this run gave it (`MemberInv`), the files of the last complete run honour
the table (`ImageInv`), and as long as no run was interrupted since, the ids are
those of these files; after one interruption all but those of one group and one
user (`StableInv`).

`GraphDepends_proofs` proves for any packages, any dependencies, circular ones
included, any names without an answer, roots and depth limits, and any order of
drawing:

* `CollectTheorem` (`CollectsAll`): the packages asked for are needed, and what
  they depend on has been or is about to be asked for (`GatherInv`);
* `NothingLostTheorem` (`NothingLost`, which speaks of acyclic graphs): each
  package keeps an edge that leads to it (`ReachInv`); the packages not drawn
  would otherwise be a set in which each depends on nothing but the others,
  against acyclicity, since what a drawn package points to is drawn or still to
  be drawn by an active call (`CoverInv`);
* `DepthTheorem` (`DepthRespected`): the active calls are a path from the root,
  as deep as they are many (`StackInv`);
* `TypeTheorem`.

Each inductive invariant was checked with TLC on the instance of the runs before
it was proved.

Only model-checked: the liveness properties (`EventuallyBuilt`,
`EventuallyDownloaded`, `CallsReturn`, `CallsEnd`, `Terminates`), which are out of
the prover's reach since they rest on fairness, and the three violations.

## Findings

1. `pkg_override`. The manual says that `<pkg>-rebuild` re-runs the compilation
   commands and `<pkg>-reconfigure` also the configuration. For a package with
   an override directory, rebuild removes the rsync stamp, on which the
   configure stamp depends, so the package is configured again.
2. `dl_parallel`. The manual says that several builds may safely run in parallel
   from one source tree. They share the download directory and within it the
   name of the temporary file: a build can move a file that another one has just
   truncated and is still writing, and go on to extract it.
3. `hw_flag`. `hwinfo.h` says of the boot flag: null or 0 is the first partition,
   1 the second. All fields are text, and the text "0" is the byte 48, which
   `boot_select_get` takes for the second.

Known beside these, as the modules show them, and not the subject of a run:

* Without the exception for `raced`, `Powered` fails: the unlocked updates in
  `jz_adc_enable` and `jz_adc_disable` (`jz_adc_v13.c:127`, `:144`) can overwrite
  that of a channel that is enabled meanwhile, and switch the power off under
  it. No document promises that channels can be enabled concurrently.
* `spinand_write_page` (`spl_sfc_nand_v2.c:368`, `:381`) takes an ECC error for a
  bad-block mark, because the variable is unsigned. After one passing error the
  image has a hole that `sfc_nand_load`, which retries, does not know of:
  `ReadBack` does not hold without the exception for `missed`.
* `sfc_nand_load` steps over a marked block without resetting its retry count
  (`spl_sfc_nand_v2.c:524`): errors met before the mark was read count against
  the next block, which is given up after fewer retries.
* If the page it gives up on is not the first of its block (`:541`), the pages
  before it stay in the buffer and reading goes on at the same page of the next
  block; checksums, where there are any, have to notice. `ReadBack` excepts such
  blocks (`given`).
* `mkusers` rewrites the groups (`:216`) before it checks that a group does not
  already exist with another gid (`:142`). The check refuses tables in which two
  rows give one group different gids: the later row has rewritten the group, and
  the earlier one fails. It cannot notice that the target directory had the group
  with another gid before the run, which is replaced. A row with a uid below -1
  is left out by the passes over the users (`:400`) before the message about it
  can be given.
* In `graph-depends` a package that is first met at the depth limit is closed
  (`:237`), and what it depends on is missing even if a shorter path leads to
  it. The reduction also removes edges of ordinary packages to the toolchain
  (`:168`). Targets without a `show-depends` rule that are not in
  `TARGET_EXCEPTIONS` end the script without a graph (`:81`).

## What is not modelled

* `legal-info`, `source-check`, `external-deps` and `<pkg>-depends`: they report
  and change no stamp that a build looks at. Installing a target package's host
  variant is a package of its own.
* An interrupted `rm -rf` of `-dirclean` or `clean`: both are atomic. Files that
  an edit deletes from an overridden tree: rsync leaves their copies.
* More than one image, and what `target-finalize` does to the target directory.
* Faults of two builds in one download directory at the same time.
* Failing probe and remove of the driver, suspend and resume (empty in the
  code), `ADC_SET_VREF`, the exported test functions, latched status bits, the
  core's spinlock taken in interrupt context.
* SPI NAND: the protocol of the controller, the probing of the device, transfers
  that start inside a block, what a read behind the device returns, and the
  loading of the real-time operating systems that other configurations boot.
* The fields of the hardware information other than boot flag and update count;
  the wrap-around of the count after 2^32 updates, which the flash does not
  survive.
* Passwords, shells and home directories of users, except that a bad home
  directory is refused; colours and names in the dependency graph.
* The scan of `apply-patches.sh` and Kconfig, which is imported from Linux: both
  are algorithms without state of their own.
* The components that `PROJECT.json` marks `not_modelled`, each with the reason.

## Plan

In this order:

1. *(done)* `PkgGeneric`: the core, with its inductive invariant.
2. *(done)* `Download`.
3. *(done)* `JzAdc`, with its inductive invariants.
4. *(done)* `SfcNand`, `Hwinfo` and the refinement of `BootStore`.
5. *(done)* `Mkusers`, `GraphDepends`.
6. *(done)* `PackageStore`, and `PkgGeneric` shown to implement it.
7. `Patches` (scan order and series files) and `Kconfig` (tristate evaluation,
   visibility, select and choices): algorithms as operators, checked against
   reference definitions over bounded inputs.
8. *(done)* Theorems: every safety property of the runs, for instances of any
   size; the refinements of `BootStore` and `PackageStore`.
