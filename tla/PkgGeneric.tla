------------------------------ MODULE PkgGeneric ------------------------------
(***************************************************************************)
(* The generic package infrastructure (package/pkg-generic.mk) as driven   *)
(* by GNU make: every package goes through steps, each step that completes *)
(* touches a stamp file, and make decides from the presence and the age of *)
(* the stamps which steps to run.  One make invocation works at a time on  *)
(* an output directory; it may fail, be interrupted or be killed at any    *)
(* point, and the user re-invokes it, edits an overridden source tree, or  *)
(* asks for a package to be rebuilt, reconfigured or removed.              *)
(*                                                                         *)
(* What a step leaves on disk is abstracted to the version of the package  *)
(* source it was made from, and to whether its commands ran to their end.  *)
(***************************************************************************)
EXTENDS Naturals, Sequences

CONSTANTS
    Pkg,         \* the packages make knows
    Deps,        \* Deps[p]: <PKG>_DEPENDENCIES
    Install,     \* Install[p]: the install steps <pkg>-install asks for
    Override,    \* the packages with an <PKG>_OVERRIDE_SRCDIR
    HasPatches,  \* the packages the patch step has patches for
    HostPrereq,  \* DEPENDENCIES_HOST_PREREQ
    Targets,     \* TARGETS
    MaxEdits,    \* bound: edits of an overridden source tree
    MaxCmds,     \* bound: requests to rebuild, reconfigure or remove
    MaxFaults    \* bound: failures and interruptions of make

TreeStep == {"downloaded", "extracted", "patched", "rsynced", "configured", "built"}
HostStep == {"host_installed"}
TargetStep == {"staging_installed", "target_installed", "images_installed"}
Step == TreeStep \cup HostStep \cup TargetStep

ASSUME PkgAssumption ==
    /\ Pkg # {}
    /\ Deps \in [Pkg -> SUBSET Pkg]
    /\ Install \in [Pkg -> {HostStep} \cup SUBSET TargetStep]
    /\ Override \subseteq Pkg
    /\ HasPatches \subseteq Pkg
    /\ HostPrereq \subseteq Pkg
    /\ Targets \subseteq Pkg
    /\ MaxEdits \in Nat /\ MaxCmds \in Nat /\ MaxFaults \in Nat

VARIABLES
    stamp,       \* stamp[p]: the steps whose stamp file exists
    newer,       \* newer[p]: pairs <<q, s>>, the stamp of q was touched after that of s
    from,        \* from[p][s]: source version of what step s left on disk (0: nothing)
    partial,     \* partial[p]: steps whose last run did not reach its end
    dirty,       \* dirty: packages with a patch applied to their tree
    src,         \* src[p]: current version of the package's source
    cmd,         \* the make invocation in progress
    rmq,         \* stamps it still has to remove before it builds
    want,        \* want[p]: the steps its goals require
    considered,  \* considered[p]: the steps it has found or brought up to date
    jobs,        \* the recipes being executed
    image,       \* the root filesystem image in BINARIES_DIR
    spent        \* how much of each bound has been used

pkgVars == <<stamp, newer, from, partial, dirty>>
makeVars == <<cmd, rmq, want, considered, jobs>>
vars == <<pkgVars, makeVars, src, image, spent>>

-------------------------------------------------------------------------------
(* The rules: which steps a package has and how they depend on each other. *)

(* The source step: downloading, or copying an overridden source tree. *)
SourceStep(p) == IF p \in Override THEN "rsynced" ELSE "downloaded"

Steps(p) ==
    (IF p \in Override THEN {"rsynced"} ELSE {"downloaded", "extracted", "patched"})
        \cup {"configured", "built"} \cup Install[p]

(* Normal prerequisites: <<q, s>> when the stamp of s depends on that of q. *)
Rule ==
    { <<"downloaded", "extracted">>, <<"extracted", "patched">>,
      <<"patched", "configured">>, <<"rsynced", "configured">>,
      <<"configured", "built">>,
      <<"built", "staging_installed">>, <<"built", "target_installed">>,
      <<"built", "images_installed">>, <<"built", "host_installed">>,
      <<"staging_installed", "target_installed">> }

Prereq(p, s) == {q \in Steps(p) : <<q, s>> \in Rule}

(* Variants of OrderOnly: dependencies, or host prerequisites, forgotten. *)
OrderOnlyHost(p, s) == IF s = SourceStep(p) /\ p \notin HostPrereq THEN HostPrereq ELSE {}
OrderOnlyDeps(p, s) == IF s = "configured" THEN Deps[p] ELSE {}

(* Order-only prerequisites: packages to install before the step, whose   *)
(* stamps' ages do not matter.                                            *)
OrderOnly(p, s) ==
    (IF s = "configured" THEN Deps[p] ELSE {}) \cup
    (IF s = SourceStep(p) /\ p \notin HostPrereq THEN HostPrereq ELSE {})

(* The smallest subset of U that holds seed and is closed under D. *)
Least(U, seed, D(_)) ==
    {x \in U : \A S \in SUBSET U :
                  (seed \subseteq S /\ \A y \in S : D(y) \subseteq S) => x \in S}

(* Chain[p][s]: step s of a package and every step of it that comes before. *)
Chain == [p \in Pkg |-> [s \in Steps(p) |->
             LET D(t) == Prereq(p, t) IN Least(Steps(p), {s}, D)]]

(* A variant of Upto: every package is also asked for its rsync step. *)
UptoRsync(p, T) == {"rsynced"} \cup UNION {Chain[p][s] : s \in T}

(* The steps that goal steps T of a package require, in the package itself. *)
Upto(p, T) == UNION {Chain[p][s] : s \in T}

(* The packages that have to be installed once those of seed are asked for. *)
Needed(seed) ==
    LET D(p) == UNION {OrderOnly(p, s) : s \in Upto(p, Install[p])}
    IN  Least(Pkg, seed, D)

(* Everything a goal requires: steps T of package p and packages seed. *)
Goal(p, T, seed) ==
    LET own == Upto(p, T)
        all == Needed(seed \cup UNION {OrderOnly(p, s) : s \in own})
    IN  [q \in Pkg |-> (IF q = p THEN own ELSE {}) \cup
                       (IF q \in all THEN Upto(q, Install[q]) ELSE {})]

-------------------------------------------------------------------------------
NoCmd == [kind |-> "none", pkg |-> CHOOSE p \in Pkg : TRUE, world |-> FALSE,
          img |-> FALSE, src |-> 0, built |-> FALSE]
NoImage == [st |-> "none", from |-> [p \in Targets |-> 0]]

Job(p, s, ph, v) == [pkg |-> p, step |-> s, phase |-> ph, src |-> v]

Init ==
    /\ stamp = [p \in Pkg |-> {}]
    /\ newer = [p \in Pkg |-> {}]
    /\ from = [p \in Pkg |-> [s \in Step |-> 0]]
    /\ partial = [p \in Pkg |-> {}]
    /\ dirty = {}
    /\ src = [p \in Pkg |-> 1]
    /\ cmd = NoCmd
    /\ rmq = <<>>
    /\ want = [p \in Pkg |-> {}]
    /\ considered = [p \in Pkg |-> {}]
    /\ jobs = {}
    /\ image = NoImage
    /\ spent = [edits |-> 0, cmds |-> 0, faults |-> 0]

-------------------------------------------------------------------------------
(* The user. *)

Idle == cmd.kind = "none"

(* A step is up to date for make: its stamp exists and no normal           *)
(* prerequisite is more recent.                                            *)
UpToDate(p, s) ==
    /\ s \in stamp[p]
    /\ \A q \in Prereq(p, s) : <<q, s>> \notin newer[p]

(* Nothing of the package would run if make were asked for it. *)
Built(p) == \A s \in Upto(p, Install[p]) : UpToDate(p, s)

Invoke(kind, p, T, world, rms) ==
    /\ Idle
    /\ cmd' = [kind |-> kind, pkg |-> p, world |-> world, img |-> FALSE,
               src |-> src[p], built |-> Built(p)]
    /\ rmq' = rms
    /\ want' = Goal(p, T, IF world THEN Targets ELSE {})
    /\ considered' = [q \in Pkg |-> {}]
    /\ UNCHANGED <<pkgVars, src, jobs, image>>

(* make, or make world: every enabled package, then the image. *)
MakeWorld == Invoke("world", CHOOSE p \in Pkg : TRUE, {}, TRUE, <<>>) /\ UNCHANGED spent

(* make <pkg>, make <pkg>-extract, make <pkg>-build...: a package up to    *)
(* some of its steps.                                                      *)
MakePkg(p, T) ==
    /\ Invoke("pkg", p, T, FALSE, <<>>)
    /\ spent.cmds < MaxCmds
    /\ spent' = [spent EXCEPT !.cmds = @ + 1]

(* Variants of CleanForRebuild: the rsync stamp stays; the configure stamp goes. *)
CleanKeepsRsync(p) ==
    <<"built", "staging_installed", "target_installed", "images_installed", "host_installed">>
CleanConfigured(p) == <<"configured">> \o CleanKeepsRsync(p)

(* The stamps <pkg>-clean-for-rebuild removes, in its order. *)
CleanForRebuild(p) ==
    (IF p \in Override THEN <<"rsynced">> ELSE <<>>) \o
    <<"built", "staging_installed", "target_installed", "images_installed", "host_installed">>

(* make <pkg>-rebuild, alone or followed by all. *)
Rebuild(p, world) ==
    /\ Invoke("rebuild", p, Install[p], world, CleanForRebuild(p))
    /\ spent.cmds < MaxCmds
    /\ spent' = [spent EXCEPT !.cmds = @ + 1]

(* make <pkg>-reconfigure, alone or followed by all. *)
Reconfigure(p, world) ==
    /\ Invoke("reconfigure", p, Install[p], world, Append(CleanForRebuild(p), "configured"))
    /\ spent.cmds < MaxCmds
    /\ spent' = [spent EXCEPT !.cmds = @ + 1]

(* make <pkg>-dirclean: the build directory goes, stamps included; what    *)
(* the package installed stays.  The rm -Rf is taken to get to its end.    *)
Dirclean(p) ==
    /\ Idle
    /\ spent.cmds < MaxCmds
    /\ stamp' = [stamp EXCEPT ![p] = {}]
    /\ from' = [from EXCEPT ![p] = [s \in Step |-> IF s \in TreeStep THEN 0 ELSE @[s]]]
    /\ partial' = [partial EXCEPT ![p] = @ \ TreeStep]
    /\ dirty' = dirty \ {p}
    /\ spent' = [spent EXCEPT !.cmds = @ + 1]
    /\ UNCHANGED <<newer, src, makeVars, image>>

(* make clean.  Its rm -rf is taken to get to its end: it removes what was *)
(* installed before the stamps, so that stamps lie after one that is cut.  *)
Clean ==
    /\ Idle
    /\ spent.cmds < MaxCmds
    /\ stamp' = [p \in Pkg |-> {}]
    /\ newer' = [p \in Pkg |-> {}]
    /\ from' = [p \in Pkg |-> [s \in Step |-> 0]]
    /\ partial' = [p \in Pkg |-> {}]
    /\ dirty' = {}
    /\ image' = NoImage
    /\ spent' = [spent EXCEPT !.cmds = @ + 1]
    /\ UNCHANGED <<src, makeVars>>

(* The developer edits the sources of an overridden package, at any time. *)
Edit(p) ==
    /\ p \in Override
    /\ spent.edits < MaxEdits
    /\ src' = [src EXCEPT ![p] = @ + 1]
    /\ spent' = [spent EXCEPT !.edits = @ + 1]
    /\ UNCHANGED <<pkgVars, makeVars, image>>

-------------------------------------------------------------------------------
(* make. *)

(* One rm -f of <pkg>-clean-for-rebuild or <pkg>-clean-for-reconfigure. *)
RemoveStamp ==
    /\ rmq # <<>>
    /\ stamp' = [stamp EXCEPT ![cmd.pkg] = @ \ {Head(rmq)}]
    /\ rmq' = Tail(rmq)
    /\ UNCHANGED <<newer, from, partial, dirty, src, cmd, want, considered, jobs, image, spent>>

(* make comes to a step once it is done with all of its prerequisites. *)
Ready(p, s) ==
    /\ rmq = <<>>
    /\ s \in want[p] \ considered[p]
    /\ Prereq(p, s) \subseteq considered[p]
    /\ \A d \in OrderOnly(p, s) : Install[d] \subseteq considered[d]

(* .NOTPARALLEL: one recipe at a time. *)
MayStart == jobs = {}

(* There is nothing to be done for a step. *)
Skip(p, s) ==
    /\ Ready(p, s)
    /\ MayStart
    /\ UpToDate(p, s)
    /\ considered' = [considered EXCEPT ![p] = @ \cup {s}]
    /\ UNCHANGED <<pkgVars, src, cmd, rmq, want, jobs, image, spent>>

(* A variant of Start: the stamp is touched before the commands are run. *)
StartTouching(p, s) ==
    /\ Ready(p, s)
    /\ MayStart
    /\ ~UpToDate(p, s)
    /\ jobs' = jobs \cup {Job(p, s, "cmds", src[p])}
    /\ partial' = [partial EXCEPT ![p] = @ \cup {s}]
    /\ stamp' = [stamp EXCEPT ![p] = @ \cup {s}]
    /\ UNCHANGED <<newer, from, dirty, src, cmd, rmq, want, considered, image, spent>>

(* The recipe of a step that is not up to date begins. *)
Start(p, s) ==
    /\ Ready(p, s)
    /\ MayStart
    /\ ~UpToDate(p, s)
    /\ jobs' = jobs \cup {Job(p, s, "cmds", src[p])}
    /\ partial' = [partial EXCEPT ![p] = @ \cup {s}]
    /\ UNCHANGED <<stamp, newer, from, dirty, src, cmd, rmq, want, considered, image, spent>>

(* apply-patches.sh calls patch -N, which fails on what is already applied. *)
PatchApplies(j) == j.step = "patched" => j.pkg \notin dirty

(* The source version a step works from. *)
Input(j) ==
    IF j.step \in {"rsynced", "downloaded"}
    THEN j.src .. src[j.pkg]
    ELSE {from[j.pkg][q] : q \in Prereq(j.pkg, j.step) \ {"staging_installed"}}

(* The trees with patches in them after a patch step, or after extracting  *)
(* again over a patched tree, which may restore every patched file.        *)
DirtyAfter(j) ==
    {IF j.step = "patched" THEN dirty \cup ({j.pkg} \cap HasPatches) ELSE dirty}
        \cup (IF j.step = "extracted" THEN {dirty \ {j.pkg}} ELSE {})

(* The recipes that run a step_end hook after touching the stamp. *)
HasStepEnd(s) == s \notin {"downloaded", "rsynced"}

(* A variant of NewerAfter: the stamp of a step run again keeps its age. *)
NewerKeepsAge(j) == newer[j.pkg] \cup {r \in Rule : r[1] = j.step}

(* The ages of the package's stamps once that of the step is touched. *)
NewerAfter(j) == {r \in newer[j.pkg] : r[2] # j.step} \cup {r \in Rule : r[1] = j.step}

(* The commands of the step succeed and the stamp is touched. *)
Touch(j) ==
    /\ j.phase = "cmds"
    /\ PatchApplies(j)
    /\ \E v \in Input(j) : from' = [from EXCEPT ![j.pkg][j.step] = v]
    /\ dirty' \in DirtyAfter(j)
    /\ partial' = [partial EXCEPT ![j.pkg] = @ \ {j.step}]
    /\ stamp' = [stamp EXCEPT ![j.pkg] = @ \cup {j.step}]
    /\ newer' = [newer EXCEPT ![j.pkg] = NewerAfter(j)]
    /\ IF HasStepEnd(j.step)
       THEN /\ jobs' = (jobs \ {j}) \cup {Job(j.pkg, j.step, "end", j.src)}
            /\ UNCHANGED considered
       ELSE /\ jobs' = jobs \ {j}
            /\ considered' = [considered EXCEPT ![j.pkg] = @ \cup {j.step}]
    /\ UNCHANGED <<src, cmd, rmq, want, image, spent>>

(* The step_end hooks succeed. *)
StepEnd(j) ==
    /\ j.phase = "end"
    /\ jobs' = jobs \ {j}
    /\ considered' = [considered EXCEPT ![j.pkg] = @ \cup {j.step}]
    /\ UNCHANGED <<pkgVars, src, cmd, rmq, want, image, spent>>

(* A variant of MadeAll: the image waits for the running recipes only. *)
MadeStarted == rmq = <<>> /\ jobs = {}

(* Every goal of the invocation is made. *)
MadeAll == rmq = <<>> /\ jobs = {} /\ \A p \in Pkg : want[p] \subseteq considered[p]

(* make gives up: nothing of the invocation is left but the files. *)
Stop ==
    /\ cmd' = NoCmd
    /\ rmq' = <<>>
    /\ want' = [p \in Pkg |-> {}]
    /\ considered' = [p \in Pkg |-> {}]
    /\ jobs' = {}

(* target-finalize, then the commands that generate the image. *)
GenerateImage ==
    /\ cmd.world /\ MadeAll
    /\ ~cmd.img
    /\ cmd' = [cmd EXCEPT !.img = TRUE]
    /\ image' = [image EXCEPT !.st = "partial"]
    /\ UNCHANGED <<pkgVars, rmq, want, considered, jobs, src, spent>>

(* The image is complete and target-post-image has run. *)
ImageDone ==
    /\ cmd.img
    /\ image' = [st |-> "done", from |-> [p \in Targets |-> from[p]["target_installed"]]]
    /\ Stop
    /\ UNCHANGED <<pkgVars, src, spent>>

Done ==
    /\ ~Idle /\ ~cmd.world /\ MadeAll
    /\ Stop
    /\ UNCHANGED <<pkgVars, src, image, spent>>

(* The packages whose patch step is cut short, with or without a patch applied. *)
CutPatches == {j.pkg : j \in {k \in jobs : k.step = "patched" /\ k.phase = "cmds"}} \cap HasPatches

(* A command of a recipe or of a step_end hook fails, or make is killed:   *)
(* every file stays as it is.                                              *)
Fail ==
    /\ ~Idle
    /\ spent.faults < MaxFaults
    /\ \E C \in SUBSET CutPatches : dirty' = dirty \cup C
    /\ Stop
    /\ spent' = [spent EXCEPT !.faults = @ + 1]
    /\ UNCHANGED <<stamp, newer, from, partial, src, image>>

(* make is interrupted: it deletes the target of the running recipe if the *)
(* recipe has modified it.                                                 *)
Interrupt ==
    /\ ~Idle
    /\ spent.faults < MaxFaults
    /\ \E C \in SUBSET CutPatches : dirty' = dirty \cup C
    /\ stamp' = [p \in Pkg |->
                    stamp[p] \ {j.step : j \in {k \in jobs : k.pkg = p /\ k.phase = "end"}}]
    /\ image' = IF cmd.img THEN NoImage ELSE image
    /\ Stop
    /\ spent' = [spent EXCEPT !.faults = @ + 1]
    /\ UNCHANGED <<newer, from, partial, src>>

(* Patching a tree that already holds a patch fails every time. *)
PatchFails(j) ==
    /\ j.phase = "cmds"
    /\ ~PatchApplies(j)
    /\ Stop
    /\ UNCHANGED <<pkgVars, src, image, spent>>

Recipe == \E j \in jobs : Touch(j) \/ StepEnd(j) \/ PatchFails(j)

Make ==
    \/ RemoveStamp
    \/ \E p \in Pkg : \E s \in want[p] : Skip(p, s) \/ Start(p, s)
    \/ Recipe
    \/ GenerateImage
    \/ ImageDone
    \/ Done

User ==
    \/ MakeWorld
    \/ \E p \in Pkg :
          \/ \E s \in Steps(p) : MakePkg(p, {s})
          \/ MakePkg(p, Install[p])
          \/ \E world \in BOOLEAN : Rebuild(p, world) \/ Reconfigure(p, world)
          \/ Dirclean(p)
          \/ Edit(p)
    \/ Clean

Next == Make \/ User \/ Fail \/ Interrupt

(* make runs until it ends; the user keeps asking for the image. *)
Spec == Init /\ [][Next]_vars

FairSpec == Spec /\ WF_vars(Make) /\ WF_vars(MakeWorld)
-------------------------------------------------------------------------------
(* Properties. *)

JobType == [pkg : Pkg, step : Step, phase : {"cmds", "end"}, src : Nat]

(* Every variable keeps the shape the rules of pkg-generic.mk give it; in  *)
(* particular only steps a package has are ever run for it or wanted.      *)
TypeOK ==
    /\ stamp \in [Pkg -> SUBSET Step]
    /\ newer \in [Pkg -> SUBSET Rule]
    /\ from \in [Pkg -> [Step -> Nat]]
    /\ partial \in [Pkg -> SUBSET Step]
    /\ dirty \subseteq Pkg
    /\ src \in [Pkg -> Nat \ {0}]
    /\ cmd \in [kind : {"none", "world", "pkg", "rebuild", "reconfigure"}, pkg : Pkg,
                world : BOOLEAN, img : BOOLEAN, src : Nat, built : BOOLEAN]
    /\ rmq \in Seq(Step)
    /\ want \in [Pkg -> SUBSET Step]
    /\ considered \in [Pkg -> SUBSET Step]
    /\ jobs \subseteq JobType
    /\ image \in [st : {"none", "partial", "done"}, from : [Targets -> Nat]]
    /\ spent \in [edits : 0 .. MaxEdits, cmds : 0 .. MaxCmds, faults : 0 .. MaxFaults]
    /\ \A p \in Pkg : considered[p] \subseteq want[p] /\ want[p] \subseteq Steps(p)
    /\ \A j \in jobs : j.step \in want[j.pkg]

(* What step s of p left on disk is whole, and was made from the source    *)
(* that the package's source step last fetched.                            *)
Sound(p, s) ==
    /\ s \notin partial[p]
    /\ from[p][s] # 0
    /\ from[p][s] = from[p][SourceStep(p)]

(* The stamps never lie: if make, invoked in this state, would skip a step *)
(* and everything it depends on in the package, the results of all these   *)
(* steps are complete and come from one version of the source, whatever    *)
(* failures and interruptions of a build, edits and partial rebuilds came  *)
(* before (touch $@ is the last command of every step in pkg-generic.mk).  *)
(* It is not claimed after a clean or dirclean that was itself cut.        *)
StampsHonest ==
    \A p \in Pkg : \A s \in Steps(p) :
        (\A q \in Chain[p][s] : UpToDate(p, q)) => Sound(p, s)

(* The packages that must be usable while a step of p runs: the host       *)
(* prerequisites, and from the configure step on the dependencies.         *)
UsedBy(p, s) ==
    (IF p \in HostPrereq THEN {} ELSE HostPrereq) \cup
    (IF s \in {"configured", "built"} \cup Install[p] THEN Deps[p] ELSE {})

(* When a package is configured, built or installed, everything it depends *)
(* on has been installed completely, from one version of its source, in    *)
(* this or in an earlier invocation, although <PKG>_DEPENDENCIES are only  *)
(* an order-only prerequisite, and of the configure step alone.            *)
DepsInstalled ==
    \A j \in jobs : \A d \in UsedBy(j.pkg, j.step) : \A s \in Install[d] : Sound(d, s)

(* An image that is written holds, for every enabled package, the complete *)
(* result of the package's current build, even if earlier invocations were *)
(* cut while installing into the target directory.                         *)
ImageSound ==
    [][image'.st = "done" /\ image.st # "done" =>
        \A p \in Targets : "target_installed" \in Install[p] =>
            /\ Sound(p, "target_installed")
            /\ image'.from[p] = from[p][SourceStep(p)]]_vars

(* The versions of what make takes for installed: none before every step   *)
(* of the package is up to date, 0 for what is not complete.               *)
Installed ==
    [p \in Pkg |-> IF Built(p)
                   THEN {IF s \in partial[p] THEN 0 ELSE from[p][s] : s \in Install[p]}
                   ELSE {}]

InImage == {p \in Targets : "target_installed" \in Install[p]}

Released == IF image.st = "done" THEN {[p \in InImage |-> {image.from[p]}]} ELSE {}

Store == INSTANCE PackageStore WITH
    Needs <- [p \in Pkg |-> {d \in UsedBy(p, "configured") : Install[d] # {}}],
    Contents <- InImage,
    installed <- Installed,
    image <- Released

(* The steps and stamps of pkg-generic.mk implement PackageStore: for      *)
(* whoever goes by the stamps a package appears at once, whole, in one     *)
(* version and after its dependencies, no failure or interruption of a     *)
(* build, no edit or rebuild ever turns one version into another under its *)
(* users, and images are made of what is installed.                        *)
WholePackages == Store!Spec

(* make <pkg>-rebuild and <pkg>-reconfigure, when they succeed, install    *)
(* every edit made before they were called, and followed by all they put   *)
(* it in the image (docs/manual/using-buildroot-development.txt).  A file  *)
(* that an edit deletes is outside the model: rsync -au leaves its copy.   *)
RebuildTakesEdits ==
    [][cmd.kind \in {"rebuild", "reconfigure"} /\ MadeAll /\ cmd'.kind = "none"
            /\ spent' = spent =>
        /\ \A s \in Install[cmd.pkg] : from[cmd.pkg][s] >= cmd.src
        /\ cmd.world /\ cmd.pkg \in Targets /\ "target_installed" \in Install[cmd.pkg]
             => image'.from[cmd.pkg] >= cmd.src]_vars

(* make <pkg>-rebuild of a package that is built re-runs its compilation,  *)
(* not its configuration (docs/manual/package-make-target.txt).            *)
RebuildKeepsConfiguration ==
    [][\A j \in jobs' \ jobs :
        ~ (cmd.kind = "rebuild" /\ cmd.built /\ j.pkg = cmd.pkg /\ j.step = "configured")]_vars

(* A package tree whose patch step was cut: patching it again fails. *)
Wedged(p) == p \in dirty /\ "patched" \notin stamp[p]

(* Whoever keeps calling make gets every package built, after any number   *)
(* of failures and interruptions, unless a patch step was cut: then only   *)
(* <pkg>-dirclean helps (apply-patches.sh, patch -N).                      *)
EventuallyBuilt ==
    <>[](\A p \in Targets : Built(p)) \/ \E p \in Pkg : <>[]Wedged(p)
===============================================================================
