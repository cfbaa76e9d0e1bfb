------------------------------- MODULE Download -------------------------------
(***************************************************************************)
(* The download helpers (package/pkg-download.mk).  Several builds, each   *)
(* with its own output directory, share one download directory and each    *)
(* run DOWNLOAD for the same archive: they try the primary site, the       *)
(* package's own site and the backup site in turn, with the method that    *)
(* fits the site, and any attempt may fail, or the build be interrupted,   *)
(* between any two commands.                                               *)
(*                                                                         *)
(* The download directory is modelled as the file system does it: names    *)
(* refer to inodes, opening for writing truncates the inode a name refers  *)
(* to, a writer keeps its inode when the name is moved or removed, and two *)
(* writers of one inode write the same bytes at their own offsets, so that *)
(* an inode is whole once the last one to truncate it has written all.     *)
(***************************************************************************)
EXTENDS Naturals, Sequences

CONSTANTS
    Build,        \* the builds that may share the download directory
    Scenarios,    \* the cases to consider: which builds run, the download
                  \* sites, and a bound on failed or interrupted commands
    MaxInode      \* bound: files ever created

ScmMethod == {"git", "svn", "cvs", "hg"}
CopyMethod == {"bzr", "scp", "file"}
Method == {"wget"} \cup ScmMethod \cup CopyMethod

(* The method of the package's site, that of BR2_PRIMARY_SITE, whether     *)
(* BR2_PRIMARY_SITE_ONLY and whether BR2_BACKUP_SITE are set.              *)
SiteConfig == [scheme : Method, primary : {"none", "wget", "scp"},
               only : BOOLEAN, backup : BOOLEAN]

ASSUME DownloadAssumption ==
    /\ \A s \in Scenarios : /\ s.builds \subseteq Build
                             /\ s.sites \subseteq SiteConfig
                             /\ s.faults \in Nat
    /\ MaxInode \in Nat \ {0}

Inode == 1 .. MaxInode
None == 0

VARIABLES
    builds,   \* the builds that run
    site,     \* the configured sites
    archive,  \* inode of $(DL_DIR)/<source>, or None
    tmp,      \* inode of $(DL_DIR)/<source>.tmp, or None
    clone,    \* state of the working copy $(DL_DIR)/<pkg>-<version>
    writer,   \* writer[i]: the last build to truncate inode i, while it writes
    whole,    \* the inodes that hold the complete archive
    used,     \* number of inodes created so far
    pc,       \* pc[b]: what build b does next
    todo,     \* todo[b]: the methods build b has left to try
    fd,       \* fd[b]: the inode build b has open, or None
    faults    \* how many more commands may fail or be interrupted

disk == <<archive, tmp, clone, writer, whole, used>>
setting == <<builds, site>>
vars == <<setting, disk, pc, todo, fd, faults>>

(* The attempts DOWNLOAD_INNER makes, in order. *)
Attempts ==
    (IF site.primary = "none" THEN <<>> ELSE <<site.primary>>) \o
    (IF site.only THEN <<>>
     ELSE <<site.scheme>> \o (IF site.backup THEN <<"wget">> ELSE <<>>))

Init ==
    /\ \E s \in Scenarios :
        builds = s.builds /\ site \in s.sites /\ faults = s.faults
    /\ archive = None /\ tmp = None /\ clone = "none"
    /\ writer = [i \in Inode |-> "nobody"]
    /\ whole = {}
    /\ used = 0
    /\ pc = [b \in Build |-> "idle"]
    /\ todo = [b \in Build |-> <<>>]
    /\ fd = [b \in Build |-> None]

Goto(b, l) == pc' = [pc EXCEPT ![b] = l]

(* A package's download step starts: nothing is downloaded, or the build   *)
(* directory was removed.                                                  *)
Begin(b) ==
    /\ b \in builds /\ pc[b] \in {"idle", "failed", "done"}
    /\ Goto(b, "test")
    /\ todo' = [todo EXCEPT ![b] = Attempts]
    /\ UNCHANGED <<setting, disk, fd, faults>>

(* No site is left: the recipe fails. *)
Exhausted(b) ==
    /\ pc[b] = "test" /\ todo[b] = <<>>
    /\ Goto(b, "failed")
    /\ UNCHANGED <<setting, disk, todo, fd, faults>>

(* Every method first tests whether the archive exists. *)
TestExists(b) ==
    /\ pc[b] = "test" /\ todo[b] # <<>>
    /\ IF archive # None
       THEN Goto(b, "done")
       ELSE Goto(b, IF Head(todo[b]) \in ScmMethod THEN "checkout" ELSE "open")
    /\ UNCHANGED <<setting, disk, todo, fd, faults>>

(* An attempt fails; DOWNLOAD_INNER goes on to the next site. *)
NextSite(b) == Goto(b, "test") /\ todo' = [todo EXCEPT ![b] = Tail(@)]

(* A variant of ToTmp: wget writes to the archive itself. *)
NeverToTmp(b) == FALSE

(* Where the method of the current attempt writes. *)
ToTmp(b) == Head(todo[b]) = "wget"

(* Open the output file, truncating it if the name exists. *)
OpenOutput(b) ==
    /\ pc[b] = "open"
    /\ LET old == IF ToTmp(b) THEN tmp ELSE archive
           new == IF old # None THEN old ELSE used + 1
       IN  /\ new \in Inode
           /\ used' = IF old # None THEN used ELSE used + 1
           /\ writer' = [writer EXCEPT ![new] = b]
           /\ whole' = whole \ {new}
           /\ fd' = [fd EXCEPT ![b] = new]
           /\ IF ToTmp(b) THEN tmp' = new /\ UNCHANGED archive
                          ELSE archive' = new /\ UNCHANGED tmp
    /\ Goto(b, "write")
    /\ UNCHANGED <<setting, clone, todo, faults>>

(* A variant of WriteAll: the file stays open. *)
WriteKeepsOpen(b) ==
    /\ pc[b] = "write"
    /\ Goto(b, IF ToTmp(b) THEN "mv" ELSE "done")
    /\ whole' = whole \cup {fd[b]}
    /\ UNCHANGED <<setting, archive, tmp, clone, writer, used, todo, fd, faults>>

(* The last byte is written and the file closed. *)
WriteAll(b) ==
    /\ pc[b] = "write"
    /\ IF writer[fd[b]] = b
       THEN /\ whole' = whole \cup {fd[b]}
            /\ writer' = [writer EXCEPT ![fd[b]] = "nobody"]
       ELSE UNCHANGED <<whole, writer>>
    /\ fd' = [fd EXCEPT ![b] = None]
    /\ Goto(b, IF ToTmp(b) THEN "mv" ELSE IF Head(todo[b]) \in ScmMethod THEN "rmclone" ELSE "done")
    /\ UNCHANGED <<setting, archive, tmp, clone, used, todo, faults>>

(* mv <source>.tmp <source>, which fails if another build moved it. *)
MoveTmp(b) ==
    /\ pc[b] = "mv"
    /\ IF tmp # None
       THEN archive' = tmp /\ tmp' = None /\ Goto(b, "done")
       ELSE Goto(b, "rmtmp") /\ UNCHANGED <<archive, tmp>>
    /\ UNCHANGED <<setting, clone, writer, whole, used, todo, fd, faults>>

(* rm -f <source>.tmp ; exit 1 *)
RemoveTmp(b) ==
    /\ pc[b] = "rmtmp"
    /\ tmp' = None
    /\ NextSite(b)
    /\ UNCHANGED <<setting, archive, clone, writer, whole, used, fd, faults>>

(* A variant of Checkout: no method copes with an existing directory. *)
CheckoutOnce(b) ==
    /\ pc[b] = "checkout"
    /\ IF clone # "none"
       THEN NextSite(b) /\ UNCHANGED clone
       ELSE clone' = "partial" /\ Goto(b, "cloning") /\ UNCHANGED todo
    /\ UNCHANGED <<setting, archive, tmp, writer, whole, used, fd, faults>>

(* git clone and svn export refuse an existing directory; hg's is removed  *)
(* first; cvs updates it.                                                  *)
Checkout(b) ==
    /\ pc[b] = "checkout"
    /\ IF Head(todo[b]) \in {"git", "svn"} /\ clone # "none"
       THEN NextSite(b) /\ UNCHANGED clone
       ELSE clone' = "partial" /\ Goto(b, "cloning") /\ UNCHANGED todo
    /\ UNCHANGED <<setting, archive, tmp, writer, whole, used, fd, faults>>

CheckoutDone(b) ==
    /\ pc[b] = "cloning"
    /\ clone' = "complete"
    /\ Goto(b, "open")
    /\ UNCHANGED <<setting, archive, tmp, writer, whole, used, todo, fd, faults>>

(* rm -rf of the working copy, the last command of the SCM methods. *)
RemoveClone(b) ==
    /\ pc[b] = "rmclone"
    /\ clone' = "none"
    /\ Goto(b, "done")
    /\ UNCHANGED <<setting, archive, tmp, writer, whole, used, todo, fd, faults>>

(* The working copy a failed or cut checkout leaves; git may remove its own. *)
CloneLeft(b) ==
    {clone} \cup (IF pc[b] = "cloning" /\ Head(todo[b]) = "git" THEN {"none"} ELSE {})

(* The transfer, or the archiving of the working copy, fails: network,     *)
(* server, unknown version, disk.  What was written stays.                 *)
TransferFails(b) ==
    /\ pc[b] \in {"open", "write", "cloning"}
    /\ faults > 0
    /\ faults' = faults - 1
    /\ fd' = [fd EXCEPT ![b] = None]
    /\ clone' \in CloneLeft(b)
    /\ IF ToTmp(b) THEN Goto(b, "rmtmp") /\ UNCHANGED todo ELSE NextSite(b)
    /\ UNCHANGED <<setting, archive, tmp, writer, whole, used>>

(* The build is interrupted or killed: only the files remain. *)
Interrupt(b) ==
    /\ pc[b] \notin {"idle", "done", "failed"}
    /\ faults > 0
    /\ faults' = faults - 1
    /\ fd' = [fd EXCEPT ![b] = None]
    /\ clone' \in CloneLeft(b)
    /\ Goto(b, "idle")
    /\ UNCHANGED <<setting, archive, tmp, writer, whole, used, todo>>

Command(b) ==
    \/ Exhausted(b)
    \/ TestExists(b)
    \/ OpenOutput(b)
    \/ WriteAll(b)
    \/ MoveTmp(b)
    \/ RemoveTmp(b)
    \/ Checkout(b)
    \/ CheckoutDone(b)
    \/ RemoveClone(b)

Next == \E b \in Build : Begin(b) \/ Command(b) \/ TransferFails(b) \/ Interrupt(b)

Spec == Init /\ [][Next]_vars

(* A build's commands end, and the user calls a failed or cut build again. *)
FairSpec ==
    /\ Spec
    /\ \A b \in Build : WF_vars(Command(b)) /\ WF_vars(pc[b] # "done" /\ Begin(b))

-------------------------------------------------------------------------------
(* Properties. *)

Pc == {"idle", "test", "open", "write", "mv", "rmtmp", "checkout", "cloning",
       "rmclone", "done", "failed"}

(* Files, writers and program counters are what pkg-download.mk makes of   *)
(* them; a build has a file open exactly while it writes.                  *)
TypeOK ==
    /\ builds \subseteq Build /\ site \in SiteConfig
    /\ archive \in 0 .. used /\ tmp \in 0 .. used /\ used \in 0 .. MaxInode
    /\ clone \in {"none", "partial", "complete"}
    /\ writer \in [Inode -> Build \cup {"nobody"}]
    /\ whole \subseteq 1 .. used
    /\ pc \in [Build -> Pc]
    /\ todo \in [Build -> Seq(Method)]
    /\ fd \in [Build -> 0 .. used]
    /\ faults \in Nat
    /\ \A b \in Build : fd[b] # None <=> pc[b] = "write"

(* A build that has left the download step and goes on to extract finds    *)
(* the complete archive, whatever other builds do in the download          *)
(* directory at the same time (docs/manual/common-usage.txt).              *)
ArchiveUsable == \A b \in Build : pc[b] = "done" => archive \in whole

(* A truncated archive can only stay in the download directory if a method *)
(* that writes to it directly was cut; the temporary file of DOWNLOAD_WGET *)
(* takes care of interrupted and failed transfers.                         *)
TruncatedOnlyDirect ==
    archive # None /\ archive \notin whole /\ (\A b \in Build : pc[b] # "write")
        => \E i \in DOMAIN Attempts : Attempts[i] # "wget"

(* Whoever keeps calling make ends up with a download, after any number of *)
(* failures and interruptions, unless a working copy was left behind that  *)
(* git or svn refuse to write to.                                          *)
EventuallyDownloaded ==
    \A b \in Build :
        \/ b \notin builds \/ <>(pc[b] = "done")
        \/ <>[](clone # "none" /\ site.scheme \in {"git", "svn"})
===============================================================================
