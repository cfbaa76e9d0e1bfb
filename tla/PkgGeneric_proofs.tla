-------------------------- MODULE PkgGeneric_proofs --------------------------
(***************************************************************************)
(* The stamps are honest, dependencies are installed before they are used, *)
(* images are made of complete packages, a rebuild takes the edits and     *)
(* leaves the configuration alone, and all of it implements PackageStore,  *)
(* for every set of packages, every dependency relation and any number of  *)
(* failures and interruptions of builds, edits and rebuilds; clean and     *)
(* dirclean are atomic.                                                    *)
(***************************************************************************)
EXTENDS PkgGeneric, SequenceTheorems, TLAPS

(* What the stamps say, independently of any invocation of make. *)
StampInv ==
    /\ \A p \in Pkg : \A s \in Steps(p) : UpToDate(p, s) => s \notin partial[p]
    /\ \A p \in Pkg : \A s \in stamp[p] : \A q \in Prereq(p, s) :
          <<q, s>> \notin newer[p] => from[p][s] = from[p][q]
    /\ \A p \in Pkg : SourceStep(p) \in stamp[p] => from[p][SourceStep(p)] # 0

(* What make knows of the steps it has been through in this invocation. *)
ConsideredInv ==
    \A p \in Pkg : \A s \in considered[p] :
        /\ UpToDate(p, s)
        /\ Prereq(p, s) \subseteq considered[p]
        /\ \A d \in OrderOnly(p, s) : Install[d] \subseteq considered[d]

(* The recipe being run: its prerequisites are done, its own step is not. *)
JobInv ==
    /\ \A j, k \in jobs : j = k
    /\ \A j \in jobs :
          /\ j.step \notin considered[j.pkg]
          /\ Prereq(j.pkg, j.step) \subseteq considered[j.pkg]
          /\ \A d \in OrderOnly(j.pkg, j.step) : Install[d] \subseteq considered[d]
          /\ j.phase = "cmds" => j.step \in partial[j.pkg]
          /\ j.phase = "end" => UpToDate(j.pkg, j.step)
          /\ j.src # 0

(* Stamps are removed before anything else, and nothing is going on when   *)
(* no make is running.                                                     *)
PhaseInv ==
    /\ rmq # <<>> => jobs = {} /\ \A p \in Pkg : considered[p] = {}
    /\ Idle => jobs = {} /\ rmq = <<>> /\ \A p \in Pkg : considered[p] = {} /\ want[p] = {}

IInv == TypeOK /\ StampInv /\ ConsideredInv /\ JobInv /\ PhaseInv

-------------------------------------------------------------------------------
(* Facts about the rules. *)

(* A prerequisite is a step of the same package, other than the step       *)
(* itself, and the rule file lists the pair.                               *)
LEMMA PrereqFacts ==
    ASSUME NEW p \in Pkg, NEW s \in Step, NEW q \in Prereq(p, s)
    PROVE  q \in Steps(p) /\ q \in Step /\ <<q, s>> \in Rule /\ q # s
  BY PkgAssumption DEF Prereq, Rule, Steps, Step, TreeStep, HostStep, TargetStep

(* A package has steps of the known kinds only, its source step among them. *)
LEMMA StepsType == ASSUME NEW p \in Pkg PROVE Steps(p) \subseteq Step /\ SourceStep(p) \in Steps(p)
  BY PkgAssumption DEF Steps, SourceStep, Step, TreeStep, HostStep, TargetStep

(* Goals only ask for steps the packages have (the -<step> targets are     *)
(* defined per package).                                                   *)
LEMMA UptoType ==
    ASSUME NEW p \in Pkg, NEW T \in SUBSET Steps(p)
    PROVE  Upto(p, T) \subseteq Steps(p)
  BY DEF Upto, Chain, Least

(* The goals of an invocation are steps of the packages they are goals of. *)
LEMMA GoalType ==
    ASSUME NEW p \in Pkg, NEW T \in SUBSET Steps(p), NEW seed
    PROVE  /\ Goal(p, T, seed) \in [Pkg -> SUBSET Step]
           /\ \A q \in Pkg : Goal(p, T, seed)[q] \subseteq Steps(q)
  <1> DEFINE all == Needed(seed \cup UNION {OrderOnly(p, s) : s \in Upto(p, T)})
             g == [q \in Pkg |-> (IF q = p THEN Upto(p, T) ELSE {}) \cup
                       (IF q \in all THEN Upto(q, Install[q]) ELSE {})]
  <1>1. Goal(p, T, seed) = g
    BY DEF Goal
  <1>2. ASSUME NEW q \in Pkg PROVE g[q] \subseteq Steps(q)
    <2>1. Install[q] \in SUBSET Steps(q)
      BY DEF Steps
    <2> HIDE DEF all
    <2>2. Upto(q, Install[q]) \subseteq Steps(q) /\ Upto(p, T) \subseteq Steps(p)
      BY <2>1, UptoType
    <2> QED BY <2>2
  <1> HIDE DEF g
  <1>3. g \in [Pkg -> SUBSET Step]
    <2>1. g = [q \in Pkg |-> g[q]]
      BY DEF g
    <2> QED BY <2>1, <1>2, StepsType
  <1> QED BY <1>1, <1>2, <1>3

-------------------------------------------------------------------------------
(* Type correctness. *)

(* Between two invocations cmd is a well-typed record. *)
LEMMA CmdType ==
    NoCmd \in [kind : {"none", "world", "pkg", "rebuild", "reconfigure"}, pkg : Pkg,
               world : BOOLEAN, img : BOOLEAN, src : Nat, built : BOOLEAN]
  BY PkgAssumption DEF NoCmd

(* An empty output directory is well typed. *)
LEMMA TypeInit == Init => TypeOK
  <1> SUFFICES ASSUME Init PROVE TypeOK OBVIOUS
  <1>1. \A p \in Pkg : considered[p] \subseteq want[p] /\ want[p] \subseteq Steps(p)
    BY DEF Init
  <1>2. image \in [st : {"none", "partial", "done"}, from : [Targets -> Nat]]
    BY DEF Init, NoImage
  <1>3. spent \in [edits : 0 .. MaxEdits, cmds : 0 .. MaxCmds, faults : 0 .. MaxFaults]
    BY PkgAssumption DEF Init
  <1>4. rmq \in Seq(Step)
    BY DEF Init
  <1> QED BY <1>1, <1>2, <1>3, <1>4, CmdType DEF Init, TypeOK

(* An invocation of make starts with well-typed goals. *)
LEMMA TypeInvoke ==
    ASSUME TypeOK, NEW kind \in {"world", "pkg", "rebuild", "reconfigure"}, NEW p \in Pkg,
           NEW T \in SUBSET Steps(p), NEW world \in BOOLEAN, NEW rms \in Seq(Step),
           Invoke(kind, p, T, world, rms),
           spent' \in [edits : 0 .. MaxEdits, cmds : 0 .. MaxCmds, faults : 0 .. MaxFaults],
           jobs = {}
    PROVE  TypeOK'
  <1>1. /\ want' \in [Pkg -> SUBSET Step]
        /\ \A q \in Pkg : want'[q] \subseteq Steps(q)
    BY GoalType DEF Invoke
  <1>2. cmd' \in [kind : {"none", "world", "pkg", "rebuild", "reconfigure"}, pkg : Pkg,
                  world : BOOLEAN, img : BOOLEAN, src : Nat, built : BOOLEAN]
    <2>1. Built(p) \in BOOLEAN
      BY DEF Built
    <2>2. src[p] \in Nat
      BY DEF TypeOK
    <2> QED BY <2>1, <2>2 DEF Invoke
  <1>3. considered' \in [Pkg -> SUBSET Step] /\ \A q \in Pkg : considered'[q] = {}
    BY DEF Invoke
  <1> QED BY <1>1, <1>2, <1>3 DEF Invoke, pkgVars, TypeOK

(* When make gives up, all of its own state is reset to well-typed values. *)
LEMMA StopType ==
    ASSUME Stop
    PROVE  /\ cmd' \in [kind : {"none", "world", "pkg", "rebuild", "reconfigure"}, pkg : Pkg,
                        world : BOOLEAN, img : BOOLEAN, src : Nat, built : BOOLEAN]
           /\ rmq' \in Seq(Step)
           /\ want' \in [Pkg -> SUBSET Step]
           /\ considered' \in [Pkg -> SUBSET Step]
           /\ jobs' \subseteq JobType
           /\ \A p \in Pkg : considered'[p] \subseteq want'[p] /\ want'[p] \subseteq Steps(p)
           /\ \A j \in jobs' : j.step \in want'[j.pkg]
  BY CmdType DEF Stop

(* <pkg>-clean-for-rebuild and -reconfigure remove stamps of known steps. *)
LEMMA CleanSeqType ==
    ASSUME NEW p \in Pkg
    PROVE  CleanForRebuild(p) \in Seq(Step) /\ Append(CleanForRebuild(p), "configured") \in Seq(Step)
  <1> DEFINE a == IF p \in Override THEN <<"rsynced">> ELSE <<>>
             b == <<"built", "staging_installed", "target_installed", "images_installed", "host_installed">>
  <1>1. a \in Seq(Step)
    <2>1. "rsynced" \in Step
      BY DEF Step, TreeStep
    <2>2. <<"rsynced">> \in Seq(Step) /\ <<>> \in Seq(Step)
      BY <2>1
    <2> QED BY <2>2
  <1>2. b \in Seq(Step)
    <2>1. \A i \in 1 .. 5 : b[i] \in Step
      BY DEF Step, TreeStep, HostStep, TargetStep
    <2> QED BY <2>1
  <1>3. CleanForRebuild(p) = a \o b
    BY DEF CleanForRebuild
  <1>4. "configured" \in Step
    BY DEF Step, TreeStep
  <1> HIDE DEF a, b
  <1> QED BY <1>1, <1>2, <1>3, <1>4

SpentType == [edits : 0 .. MaxEdits, cmds : 0 .. MaxCmds, faults : 0 .. MaxFaults]

(* Counting a request, an edit or a fault stays within its bound. *)
LEMMA SpentStep ==
    ASSUME TypeOK
    PROVE  /\ spent.cmds < MaxCmds => [spent EXCEPT !.cmds = @ + 1] \in SpentType
           /\ spent.edits < MaxEdits => [spent EXCEPT !.edits = @ + 1] \in SpentType
           /\ spent.faults < MaxFaults => [spent EXCEPT !.faults = @ + 1] \in SpentType
           /\ spent \in SpentType
  <1>1. /\ spent \in SpentType
        /\ spent.cmds \in Nat /\ spent.edits \in Nat /\ spent.faults \in Nat
        /\ MaxCmds \in Nat /\ MaxEdits \in Nat /\ MaxFaults \in Nat
    BY PkgAssumption DEF TypeOK, SpentType
  <1>2. spent.cmds < MaxCmds => [spent EXCEPT !.cmds = @ + 1] \in SpentType
    BY <1>1 DEF SpentType
  <1>3. spent.edits < MaxEdits => [spent EXCEPT !.edits = @ + 1] \in SpentType
    BY <1>1 DEF SpentType
  <1>4. spent.faults < MaxFaults => [spent EXCEPT !.faults = @ + 1] \in SpentType
    BY <1>1 DEF SpentType
  <1> QED BY <1>1, <1>2, <1>3, <1>4

(* What the user does keeps the types. *)
LEMMA TypeUser == IInv /\ User => TypeOK'
  <1> SUFFICES ASSUME IInv, User PROVE TypeOK' OBVIOUS
  <1> USE DEF IInv
  <1>0. Idle => jobs = {}
    BY DEF PhaseInv
  <1>1. ASSUME MakeWorld PROVE TypeOK'
    <2>1. (CHOOSE p \in Pkg : TRUE) \in Pkg
      BY PkgAssumption
    <2>2. spent' \in SpentType /\ <<>> \in Seq(Step)
      BY <1>1, SpentStep DEF MakeWorld
    <2> QED BY <1>0, <1>1, <2>1, <2>2, TypeInvoke DEF MakeWorld, Invoke, SpentType
  <1>2. ASSUME NEW p \in Pkg, NEW T \in SUBSET Steps(p), MakePkg(p, T) PROVE TypeOK'
    <2>1. spent' \in SpentType /\ <<>> \in Seq(Step)
      BY <1>2, SpentStep DEF MakePkg
    <2> QED BY <1>0, <1>2, <2>1, TypeInvoke DEF MakePkg, Invoke, SpentType
  <1>3. ASSUME NEW p \in Pkg, NEW world \in BOOLEAN, Rebuild(p, world) \/ Reconfigure(p, world)
        PROVE TypeOK'
    <2>1. spent' \in SpentType
      BY <1>3, SpentStep DEF Rebuild, Reconfigure
    <2>2. Install[p] \in SUBSET Steps(p)
      BY DEF Steps
    <2> QED BY <1>0, <1>3, <2>1, <2>2, TypeInvoke, CleanSeqType
            DEF Rebuild, Reconfigure, Invoke, SpentType
  <1>4. ASSUME NEW p \in Pkg, Dirclean(p) PROVE TypeOK'
    <2>1. spent' \in SpentType
      BY <1>4, SpentStep DEF Dirclean
    <2>2. from' \in [Pkg -> [Step -> Nat]]
      BY <1>4 DEF Dirclean, TypeOK
    <2> QED BY <1>4, <2>1, <2>2 DEF Dirclean, TypeOK, makeVars, SpentType
  <1>5. ASSUME NEW p \in Pkg, Edit(p) PROVE TypeOK'
    <2>1. spent' \in SpentType
      BY <1>5, SpentStep DEF Edit
    <2> QED BY <1>5, <2>1 DEF Edit, TypeOK, pkgVars, makeVars, SpentType
  <1>6. ASSUME Clean PROVE TypeOK'
    <2>1. spent' \in SpentType
      BY <1>6, SpentStep DEF Clean
    <2>2. image' \in [st : {"none", "partial", "done"}, from : [Targets -> Nat]]
      BY <1>6 DEF Clean, NoImage
    <2> QED BY <1>6, <2>1, <2>2 DEF Clean, TypeOK, makeVars, SpentType
  <1>7. \A p \in Pkg : Install[p] \in SUBSET Steps(p)
    BY DEF Steps
  <1> QED BY <1>1, <1>2, <1>3, <1>4, <1>5, <1>6, <1>7 DEF User

(* What make does keeps the types. *)
LEMMA TypeMake == IInv /\ (Make \/ Fail \/ Interrupt) => TypeOK'
  <1> SUFFICES ASSUME IInv, Make \/ Fail \/ Interrupt PROVE TypeOK' OBVIOUS
  <1>0. TypeOK
    BY DEF IInv
  <1>1. ASSUME RemoveStamp PROVE TypeOK'
    <2>1. rmq' \in Seq(Step)
      BY <1>0, <1>1 DEF RemoveStamp, TypeOK
    <2> QED BY <1>0, <1>1, <2>1 DEF RemoveStamp, TypeOK
  <1>2. ASSUME NEW p \in Pkg, NEW s \in want[p], Skip(p, s) PROVE TypeOK'
    BY <1>0, <1>2 DEF Skip, Ready, TypeOK, pkgVars
  <1>3. ASSUME NEW p \in Pkg, NEW s \in want[p], Start(p, s) PROVE TypeOK'
    <2>1. Job(p, s, "cmds", src[p]) \in JobType
      BY <1>0 DEF Job, JobType, TypeOK
    <2>2. Job(p, s, "cmds", src[p]).step \in want[Job(p, s, "cmds", src[p]).pkg]
      BY DEF Job
    <2> QED BY <1>0, <1>3, <2>1, <2>2 DEF Start, TypeOK
  <1>4. ASSUME NEW j \in jobs, Touch(j) PROVE TypeOK'
    <2>1. j \in JobType /\ j.pkg \in Pkg /\ j.step \in Step /\ j.src \in Nat /\ j.step \in want[j.pkg]
      BY <1>0 DEF TypeOK, JobType
    <2>2. Input(j) \subseteq Nat
      <3>1. j.src .. src[j.pkg] \subseteq Nat
        BY <1>0, <2>1 DEF TypeOK
      <3>2. ASSUME NEW q \in Prereq(j.pkg, j.step) PROVE from[j.pkg][q] \in Nat
        <4>1. q \in Step
          BY <2>1, PrereqFacts
        <4>2. from[j.pkg] \in [Step -> Nat]
          BY <1>0, <2>1 DEF TypeOK
        <4> QED BY <4>1, <4>2
      <3> QED BY <3>1, <3>2 DEF Input
    <2>3. from' \in [Pkg -> [Step -> Nat]]
      BY <1>0, <1>4, <2>1, <2>2 DEF Touch, TypeOK
    <2>4. dirty' \subseteq Pkg
      BY <1>0, <1>4, <2>1 DEF Touch, DirtyAfter, TypeOK
    <2>5. newer' \in [Pkg -> SUBSET Rule]
      <3>1. newer[j.pkg] \subseteq Rule
        BY <1>0, <2>1 DEF TypeOK
      <3>2. {r \in newer[j.pkg] : r[2] # j.step} \cup {r \in Rule : r[1] = j.step} \in SUBSET Rule
        BY <3>1
      <3> QED BY <1>0, <1>4, <3>2 DEF Touch, NewerAfter, TypeOK
    <2>6. Job(j.pkg, j.step, "end", j.src) \in JobType
      BY <2>1 DEF Job, JobType
    <2>7. /\ jobs' \subseteq JobType
          /\ \A k \in jobs' : k.step \in want[k.pkg]
      BY <1>0, <1>4, <2>1, <2>6 DEF Touch, TypeOK, Job
    <2>8. /\ considered' \in [Pkg -> SUBSET Step]
          /\ \A p \in Pkg : considered'[p] \subseteq want[p]
      <3>1. CASE considered' = considered
        BY <1>0, <3>1 DEF TypeOK
      <3>2. CASE considered' = [considered EXCEPT ![j.pkg] = @ \cup {j.step}]
        BY <1>0, <2>1, <3>2 DEF TypeOK
      <3> QED BY <1>4, <3>1, <3>2 DEF Touch
    <2> QED BY <1>0, <1>4, <2>1, <2>3, <2>4, <2>5, <2>7, <2>8 DEF Touch, TypeOK
  <1>5. ASSUME NEW j \in jobs, StepEnd(j) PROVE TypeOK'
    BY <1>0, <1>5 DEF StepEnd, TypeOK, pkgVars, JobType
  <1>6. ASSUME NEW j \in jobs, PatchFails(j) PROVE TypeOK'
    BY <1>0, <1>6, StopType DEF PatchFails, TypeOK, pkgVars
  <1>7. ASSUME GenerateImage PROVE TypeOK'
    BY <1>0, <1>7 DEF GenerateImage, TypeOK, pkgVars
  <1>8. ASSUME ImageDone PROVE TypeOK'
    <2>1. image' \in [st : {"none", "partial", "done"}, from : [Targets -> Nat]]
      BY <1>0, <1>8, PkgAssumption DEF ImageDone, TypeOK, Step, TargetStep
    <2> QED BY <1>0, <1>8, <2>1, StopType DEF ImageDone, TypeOK, pkgVars
  <1>9. ASSUME Done PROVE TypeOK'
    BY <1>0, <1>9, StopType DEF Done, TypeOK, pkgVars
  <1>10. ASSUME Fail PROVE TypeOK'
    <2>1. CutPatches \subseteq Pkg
      BY PkgAssumption DEF CutPatches
    <2>2. spent' \in SpentType
      BY <1>0, <1>10, SpentStep DEF Fail
    <2> QED BY <1>0, <1>10, <2>1, <2>2, StopType DEF Fail, TypeOK, SpentType
  <1>11. ASSUME Interrupt PROVE TypeOK'
    <2>1. CutPatches \subseteq Pkg
      BY PkgAssumption DEF CutPatches
    <2>2. spent' \in SpentType
      BY <1>0, <1>11, SpentStep DEF Interrupt
    <2>3. image' \in [st : {"none", "partial", "done"}, from : [Targets -> Nat]]
      BY <1>0, <1>11 DEF Interrupt, NoImage, TypeOK
    <2>4. stamp' \in [Pkg -> SUBSET Step]
      BY <1>0, <1>11 DEF Interrupt, TypeOK
    <2> QED BY <1>0, <1>11, <2>1, <2>2, <2>3, <2>4, StopType DEF Interrupt, TypeOK, SpentType
  <1> QED BY <1>1, <1>2, <1>3, <1>4, <1>5, <1>6, <1>7, <1>8, <1>9, <1>10, <1>11 DEF Make, Recipe

-------------------------------------------------------------------------------
(* The inductive invariant. *)

SafeInv == StampInv /\ ConsideredInv /\ JobInv /\ PhaseInv

(* A step has one prerequisite, except that installing to the target also  *)
(* waits for the staging installation, which has the same one.             *)
LEMMA PrereqShape ==
    ASSUME NEW p \in Pkg, NEW s \in Step, NEW q \in Prereq(p, s),
           NEW m \in Prereq(p, s) \ {"staging_installed"}
    PROVE  q = m \/ (q = "staging_installed" /\ m \in Prereq(p, q))
  BY PkgAssumption DEF Prereq, Rule, Steps, HostStep, TargetStep

(* An empty output directory satisfies the inductive invariant. *)
LEMMA SafeInit == Init => IInv
  BY TypeInit DEF Init, IInv, StampInv, ConsideredInv, JobInv, PhaseInv, UpToDate

(* Removing stamps leaves the remaining ones honest. *)
LEMMA FewerStamps ==
    ASSUME StampInv, newer' = newer, from' = from, partial' = partial,
           \A p \in Pkg : stamp'[p] \subseteq stamp[p]
    PROVE  StampInv'
  BY DEF StampInv, UpToDate

(* However make ends, what it leaves is honest. *)
LEMMA StopSafe ==
    ASSUME IInv, Stop, newer' = newer, from' = from, partial' = partial,
           \A p \in Pkg : stamp'[p] \subseteq stamp[p]
    PROVE  SafeInv'
  <1>1. StampInv'
    BY FewerStamps DEF IInv
  <1>2. ConsideredInv' /\ JobInv' /\ PhaseInv'
    BY DEF Stop, ConsideredInv, JobInv, PhaseInv
  <1> QED BY <1>1, <1>2 DEF SafeInv

(* A new invocation has considered nothing and runs nothing yet. *)
LEMMA InvokeSafe ==
    ASSUME IInv, NEW kind \in {"world", "pkg", "rebuild", "reconfigure"}, NEW p, NEW T, NEW world, NEW rms,
           Invoke(kind, p, T, world, rms)
    PROVE  SafeInv'
  <1>1. StampInv'
    BY FewerStamps DEF IInv, Invoke, pkgVars
  <1>2. jobs' = {} /\ \A q \in Pkg : considered'[q] = {}
    BY DEF Invoke, IInv, PhaseInv
  <1>3. ~Idle'
    BY DEF Invoke, Idle
  <1> QED BY <1>1, <1>2, <1>3 DEF SafeInv, ConsideredInv, JobInv, PhaseInv

(* What the user does keeps the stamps honest. *)
LEMMA UserSafe == IInv /\ User => SafeInv'
  <1> SUFFICES ASSUME IInv, User PROVE SafeInv' OBVIOUS
  <1>1. ASSUME MakeWorld PROVE SafeInv'
    BY <1>1, InvokeSafe DEF MakeWorld
  <1>2. ASSUME NEW p \in Pkg, NEW T, MakePkg(p, T) PROVE SafeInv'
    BY <1>2, InvokeSafe DEF MakePkg
  <1>3. ASSUME NEW p \in Pkg, NEW world \in BOOLEAN, Rebuild(p, world) \/ Reconfigure(p, world)
        PROVE SafeInv'
    BY <1>3, InvokeSafe DEF Rebuild, Reconfigure
  <1>4. ASSUME NEW p \in Pkg, Dirclean(p) PROVE SafeInv'
    <2>1. StampInv'
      BY <1>4 DEF Dirclean, IInv, TypeOK, StampInv, UpToDate
    <2>2. ConsideredInv' /\ JobInv' /\ PhaseInv'
      BY <1>4 DEF Dirclean, makeVars, IInv, ConsideredInv, JobInv, PhaseInv, Idle
    <2> QED BY <2>1, <2>2 DEF SafeInv
  <1>5. ASSUME NEW p \in Pkg, Edit(p) PROVE SafeInv'
    BY <1>5 DEF Edit, pkgVars, makeVars, IInv, SafeInv, StampInv, ConsideredInv, JobInv, PhaseInv,
                UpToDate, Idle
  <1>6. ASSUME Clean PROVE SafeInv'
    BY <1>6 DEF Clean, makeVars, IInv, SafeInv, StampInv, ConsideredInv, JobInv, PhaseInv,
                UpToDate, Idle
  <1> QED BY <1>1, <1>2, <1>3, <1>4, <1>5, <1>6 DEF User

(* Touching the stamp of a step whose commands have succeeded: the step    *)
(* becomes up to date, the steps after it become out of date, and none of  *)
(* those had been considered.                                              *)
LEMMA TouchSafe == ASSUME IInv, NEW j \in jobs, Touch(j) PROVE SafeInv'
  <1> DEFINE p == j.pkg
             s == j.step
  <1>1. p \in Pkg /\ s \in Step /\ s \in Steps(p) /\ j.src \in Nat
    BY DEF IInv, TypeOK, JobType
  <1>2. /\ s \notin considered[p]
        /\ Prereq(p, s) \subseteq considered[p]
        /\ \A d \in OrderOnly(p, s) : Install[d] \subseteq considered[d]
        /\ j.src # 0
        /\ jobs = {j}
    BY DEF IInv, JobInv
  <1>3. PICK v \in Input(j) : from' = [from EXCEPT ![p][s] = v]
    BY DEF Touch
  <1>4. /\ \A r \in Pkg : \A t \in Step : (r # p \/ t # s) => from'[r][t] = from[r][t]
        /\ from'[p][s] = v
    BY <1>1, <1>3 DEF IInv, TypeOK
  <1>5. /\ \A r \in Pkg : r # p => stamp'[r] = stamp[r] /\ newer'[r] = newer[r] /\ partial'[r] = partial[r]
        /\ stamp'[p] = stamp[p] \cup {s}
        /\ newer'[p] = {r \in newer[p] : r[2] # s} \cup {r \in Rule : r[1] = s}
        /\ partial'[p] = partial[p] \ {s}
    BY <1>1 DEF Touch, NewerAfter, IInv, TypeOK
  <1> HIDE DEF p, s
  <1>6. \A t \in Step : t # s => \A q \in Prereq(p, t) :
            <<q, t>> \notin newer'[p] <=> (<<q, t>> \notin newer[p] /\ q # s)
    BY <1>1, <1>5, PrereqFacts DEF IInv, TypeOK
  <1>7. \A q \in Prereq(p, s) : <<q, s>> \notin newer'[p]
    BY <1>1, <1>5, PrereqFacts
  <1>8. UpToDate(p, s)'
    BY <1>5, <1>7 DEF UpToDate
  <1>9. \A t \in Step : t # s => (UpToDate(p, t)' => UpToDate(p, t))
    BY <1>5, <1>6 DEF UpToDate
  <1>10. \A r \in Pkg : r # p => \A t \in Step : UpToDate(r, t)' <=> UpToDate(r, t)
    BY <1>5 DEF UpToDate
  <1>11. \A q \in Prereq(p, s) : from[p][q] = v
    <2>1. ASSUME NEW q \in Prereq(p, s) PROVE from[p][q] = v
      <3>1. s \notin {"rsynced", "downloaded"}
        BY DEF Prereq, Rule
      <3>2. PICK m \in Prereq(p, s) \ {"staging_installed"} : v = from[p][m]
        BY <3>1, <1>3 DEF Input, p, s
      <3>3. CASE q = m
        BY <3>2, <3>3
      <3>4. CASE q = "staging_installed" /\ m \in Prereq(p, q)
        <4>1. UpToDate(p, q)
          BY <1>1, <1>2 DEF IInv, ConsideredInv
        <4>2. from[p][q] = from[p][m]
          BY <1>1, <3>4, <4>1 DEF IInv, StampInv, UpToDate
        <4> QED BY <3>2, <4>2
      <3> QED BY <1>1, <3>2, <3>3, <3>4, PrereqShape
    <2> QED BY <2>1
  <1>12. StampInv'
    <2>1. ASSUME NEW r \in Pkg, NEW t \in Steps(r), UpToDate(r, t)' PROVE t \notin partial'[r]
      <3>1. CASE r # p
        BY <2>1, <3>1, <1>5, <1>10, StepsType DEF IInv, StampInv
      <3>2. CASE r = p
        BY <2>1, <3>2, <1>5, <1>9, StepsType DEF IInv, StampInv
      <3> QED BY <3>1, <3>2
    <2>2. ASSUME NEW r \in Pkg, NEW t \in stamp'[r], NEW q \in Prereq(r, t), <<q, t>> \notin newer'[r]
          PROVE from'[r][t] = from'[r][q]
      <3>0. t \in Step /\ q \in Step /\ q # t
        <4>1. stamp[r] \subseteq Step /\ stamp[p] \subseteq Step
          BY <1>1 DEF IInv, TypeOK
        <4>2. t \in Step
          BY <4>1, <1>1, <1>5
        <4> QED BY <4>2, PrereqFacts
      <3>1. CASE r # p
        BY <2>2, <3>0, <3>1, <1>4, <1>5 DEF IInv, StampInv
      <3>2. CASE r = p /\ t = s
        BY <3>0, <3>2, <1>1, <1>4, <1>11
      <3>3. CASE r = p /\ t # s
        <4>1. <<q, t>> \notin newer[p] /\ q # s /\ t \in stamp[p]
          BY <2>2, <3>0, <3>3, <1>5, <1>6
        <4> QED BY <3>0, <3>3, <4>1, <1>1, <1>4 DEF IInv, StampInv
      <3> QED BY <3>1, <3>2, <3>3
    <2>3. ASSUME NEW r \in Pkg, SourceStep(r) \in stamp'[r] PROVE from'[r][SourceStep(r)] # 0
      <3>1. CASE r = p /\ SourceStep(r) = s
        <4>1. s \in {"rsynced", "downloaded"}
          BY <3>1 DEF SourceStep
        <4>2. v \in j.src .. src[j.pkg]
          BY <4>1, <1>3 DEF Input, s
        <4>3. src[j.pkg] \in Nat
          BY <1>1 DEF IInv, TypeOK, p
        <4>4. v # 0
          BY <4>2, <4>3, <1>1, <1>2
        <4> QED BY <3>1, <4>4, <1>4
      <3>2. CASE ~(r = p /\ SourceStep(r) = s)
        <4>1. SourceStep(r) \in Step
          BY StepsType
        <4> QED BY <2>3, <3>2, <4>1, <1>4, <1>5 DEF IInv, StampInv
      <3> QED BY <3>1, <3>2
    <2> QED BY <2>1, <2>2, <2>3 DEF StampInv
  <1>13. \A r \in Pkg : \A t \in considered[r] : UpToDate(r, t)'
    <2>1. ASSUME NEW r \in Pkg, NEW t \in considered[r] PROVE UpToDate(r, t)'
      <3>0. t \in Step /\ UpToDate(r, t) /\ Prereq(r, t) \subseteq considered[r]
        BY DEF IInv, TypeOK, ConsideredInv
      <3>1. CASE r # p
        BY <3>0, <3>1, <1>10
      <3>2. CASE r = p
        <4>1. t # s /\ s \notin Prereq(p, t)
          BY <3>0, <3>2, <1>2 DEF p, s
        <4> QED BY <3>0, <3>2, <4>1, <1>5, <1>6 DEF UpToDate
      <3> QED BY <3>1, <3>2
    <2> QED BY <2>1
  <1>14. /\ \A r \in Pkg : considered[r] \subseteq considered'[r]
         /\ \A r \in Pkg : \A t \in considered'[r] : t \in considered[r] \/ (r = p /\ t = s)
         /\ rmq' = rmq /\ cmd' = cmd /\ want' = want
    <2>1. CASE considered' = considered
      BY <2>1 DEF Touch
    <2>2. CASE considered' = [considered EXCEPT ![p] = @ \cup {s}]
      BY <1>1, <2>2 DEF Touch, NewerAfter, IInv, TypeOK
    <2> QED BY <2>1, <2>2 DEF Touch, p, s
  <1>15. ConsideredInv'
    <2>1. ASSUME NEW r \in Pkg, NEW t \in considered'[r]
          PROVE  /\ UpToDate(r, t)'
                 /\ Prereq(r, t) \subseteq considered'[r]
                 /\ \A d \in OrderOnly(r, t) : Install[d] \subseteq considered'[d]
      <3>0. OrderOnly(r, t) \subseteq Pkg
        BY PkgAssumption DEF OrderOnly
      <3>1. CASE t \in considered[r]
        BY <3>0, <3>1, <1>13, <1>14 DEF IInv, ConsideredInv
      <3>2. CASE r = p /\ t = s
        BY <3>0, <3>2, <1>1, <1>2, <1>8, <1>14
      <3> QED BY <3>1, <3>2, <1>14
    <2> QED BY <2>1 DEF ConsideredInv
  <1>16. JobInv'
    <2>1. CASE jobs' = {}
      BY <2>1 DEF JobInv
    <2>2. CASE jobs' = {Job(p, s, "end", j.src)} /\ considered' = considered
      BY <2>2, <1>2, <1>8 DEF JobInv, Job
    <2> QED BY <1>2, <2>1, <2>2 DEF Touch, p, s
  <1>17. PhaseInv'
    <2>1. rmq = <<>> /\ ~Idle
      BY <1>2 DEF IInv, PhaseInv
    <2> QED BY <2>1, <1>14 DEF PhaseInv, Idle
  <1> QED BY <1>12, <1>15, <1>16, <1>17 DEF SafeInv

(* What make does, failing and being interrupted included, keeps them so. *)
LEMMA MakeSafe == IInv /\ (Make \/ Fail \/ Interrupt) => SafeInv'
  <1> SUFFICES ASSUME IInv, Make \/ Fail \/ Interrupt PROVE SafeInv' OBVIOUS
  <1>1. ASSUME RemoveStamp PROVE SafeInv'
    <2>1. \A p \in Pkg : stamp'[p] \subseteq stamp[p]
      BY <1>1 DEF RemoveStamp, IInv, TypeOK
    <2>2. StampInv'
      BY <1>1, <2>1, FewerStamps DEF RemoveStamp, IInv
    <2>3. jobs' = {} /\ \A p \in Pkg : considered'[p] = {}
      BY <1>1 DEF RemoveStamp, IInv, PhaseInv
    <2>4. ~Idle'
      BY <1>1 DEF RemoveStamp, IInv, PhaseInv, Idle
    <2> QED BY <2>2, <2>3, <2>4 DEF SafeInv, ConsideredInv, JobInv, PhaseInv
  <1>2. ASSUME NEW p \in Pkg, NEW s \in want[p], Skip(p, s) PROVE SafeInv'
    <2>1. StampInv'
      BY <1>2, FewerStamps DEF Skip, pkgVars, IInv
    <2>2. /\ \A r \in Pkg : considered[r] \subseteq considered'[r]
          /\ \A r \in Pkg : \A t \in considered'[r] : t \in considered[r] \/ (r = p /\ t = s)
      BY <1>2 DEF Skip, IInv, TypeOK
    <2>3. \A r \in Pkg : \A t \in Step : UpToDate(r, t)' <=> UpToDate(r, t)
      BY <1>2 DEF Skip, pkgVars, UpToDate
    <2>4. ConsideredInv'
      <3>1. ASSUME NEW r \in Pkg, NEW t \in considered'[r]
            PROVE  /\ UpToDate(r, t)'
                   /\ Prereq(r, t) \subseteq considered'[r]
                   /\ \A d \in OrderOnly(r, t) : Install[d] \subseteq considered'[d]
        <4>0. OrderOnly(r, t) \subseteq Pkg
          BY PkgAssumption DEF OrderOnly
        <4>1. CASE t \in considered[r]
          BY <4>0, <4>1, <2>2, <2>3 DEF IInv, TypeOK, ConsideredInv
        <4>2. CASE r = p /\ t = s
          BY <4>0, <4>2, <1>2, <2>2, <2>3 DEF Skip, Ready, IInv, TypeOK
        <4> QED BY <4>1, <4>2, <2>2
      <3> QED BY <3>1 DEF ConsideredInv
    <2>5. JobInv'
      BY <1>2 DEF Skip, MayStart, JobInv
    <2>6. PhaseInv'
      BY <1>2 DEF Skip, Ready, IInv, PhaseInv, Idle
    <2> QED BY <2>1, <2>4, <2>5, <2>6 DEF SafeInv
  <1>3. ASSUME NEW p \in Pkg, NEW s \in want[p], Start(p, s) PROVE SafeInv'
    <2>0. s \in Step /\ src[p] # 0
      BY DEF IInv, TypeOK
    <2>1. StampInv'
      BY <1>3 DEF Start, IInv, TypeOK, StampInv, UpToDate
    <2>2. ConsideredInv'
      BY <1>3 DEF Start, IInv, ConsideredInv, UpToDate
    <2>3. JobInv'
      <3>1. jobs' = {Job(p, s, "cmds", src[p])}
        BY <1>3 DEF Start, MayStart
      <3>2. s \in partial'[p]
        BY <1>3 DEF Start, IInv, TypeOK
      <3> QED BY <1>3, <2>0, <3>1, <3>2 DEF Start, Ready, JobInv, Job
    <2>4. PhaseInv'
      BY <1>3 DEF Start, Ready, IInv, PhaseInv, Idle
    <2> QED BY <2>1, <2>2, <2>3, <2>4 DEF SafeInv
  <1>4. ASSUME NEW j \in jobs, Touch(j) PROVE SafeInv'
    BY <1>4, TouchSafe
  <1>5. ASSUME NEW j \in jobs, StepEnd(j) PROVE SafeInv'
    <2>1. StampInv'
      BY <1>5, FewerStamps DEF StepEnd, pkgVars, IInv
    <2>2. /\ j.pkg \in Pkg
          /\ \A r \in Pkg : considered[r] \subseteq considered'[r]
          /\ \A r \in Pkg : \A t \in considered'[r] : t \in considered[r] \/ (r = j.pkg /\ t = j.step)
      BY <1>5 DEF StepEnd, IInv, TypeOK, JobType
    <2>3. \A r \in Pkg : \A t : UpToDate(r, t)' <=> UpToDate(r, t)
      BY <1>5 DEF StepEnd, pkgVars, UpToDate
    <2>4. ConsideredInv'
      <3>1. ASSUME NEW r \in Pkg, NEW t \in considered'[r]
            PROVE  /\ UpToDate(r, t)'
                   /\ Prereq(r, t) \subseteq considered'[r]
                   /\ \A d \in OrderOnly(r, t) : Install[d] \subseteq considered'[d]
        <4>0. OrderOnly(r, t) \subseteq Pkg
          BY PkgAssumption DEF OrderOnly
        <4>1. CASE t \in considered[r]
          BY <4>0, <4>1, <2>2, <2>3 DEF IInv, ConsideredInv
        <4>2. CASE r = j.pkg /\ t = j.step
          BY <4>0, <4>2, <1>5, <2>2, <2>3 DEF StepEnd, IInv, JobInv
        <4> QED BY <4>1, <4>2, <2>2
      <3> QED BY <3>1 DEF ConsideredInv
    <2>5. JobInv'
      <3>1. jobs' = {}
        BY <1>5 DEF StepEnd, IInv, JobInv
      <3> QED BY <3>1 DEF JobInv
    <2>6. PhaseInv'
      BY <1>5 DEF StepEnd, IInv, PhaseInv, Idle
    <2> QED BY <2>1, <2>4, <2>5, <2>6 DEF SafeInv
  <1>6. ASSUME NEW j \in jobs, PatchFails(j) PROVE SafeInv'
    BY <1>6, StopSafe DEF PatchFails, pkgVars
  <1>7. ASSUME GenerateImage PROVE SafeInv'
    <2>1. cmd'.kind = cmd.kind
      BY <1>7 DEF GenerateImage, IInv, TypeOK
    <2> QED BY <1>7, <2>1 DEF GenerateImage, pkgVars, IInv, SafeInv, StampInv, ConsideredInv, JobInv,
                              PhaseInv, UpToDate, Idle
  <1>8. ASSUME ImageDone \/ Done PROVE SafeInv'
    BY <1>8, StopSafe DEF ImageDone, Done, pkgVars
  <1>9. ASSUME Fail PROVE SafeInv'
    BY <1>9, StopSafe DEF Fail
  <1>10. ASSUME Interrupt PROVE SafeInv'
    <2>1. \A p \in Pkg : stamp'[p] \subseteq stamp[p]
      BY <1>10 DEF Interrupt
    <2> QED BY <1>10, <2>1, StopSafe DEF Interrupt
  <1> QED BY <1>1, <1>2, <1>3, <1>4, <1>5, <1>6, <1>7, <1>8, <1>9, <1>10 DEF Make, Recipe

(* IInv is an inductive invariant of the specification. *)
THEOREM Inductive == Spec => []IInv
  <1>1. IInv /\ [Next]_vars => IInv'
    <2> SUFFICES ASSUME IInv, [Next]_vars PROVE IInv' OBVIOUS
    <2>1. CASE Next
      <3>1. TypeOK' /\ SafeInv'
        BY <2>1, TypeUser, TypeMake, UserSafe, MakeSafe DEF Next
      <3> QED BY <3>1 DEF IInv, SafeInv
    <2>2. CASE UNCHANGED vars
      <3> USE <2>2 DEF vars, pkgVars, makeVars, IInv
      <3>1. TypeOK'
        BY DEF TypeOK
      <3>2. StampInv'
        BY DEF StampInv, UpToDate
      <3>3. ConsideredInv'
        BY DEF ConsideredInv, UpToDate
      <3>4. JobInv'
        BY DEF JobInv, UpToDate
      <3>5. PhaseInv'
        BY DEF PhaseInv, Idle
      <3> QED BY <3>1, <3>2, <3>3, <3>4, <3>5
    <2> QED BY <2>1, <2>2
  <1> QED BY <1>1, SafeInit, PTL DEF Spec

-------------------------------------------------------------------------------
(* From the invariant to the properties. *)

(* Steps that are all up to date, together with everything before them,    *)
(* have sound results: follow the rules back to the source step.           *)
LEMMA ChainSound ==
    ASSUME StampInv, NEW p \in Pkg, NEW X \in SUBSET Steps(p),
           \A t \in X : UpToDate(p, t) /\ Prereq(p, t) \subseteq X,
           NEW s \in X
    PROVE  Sound(p, s) /\ SourceStep(p) \in X
  <1> DEFINE S == SourceStep(p)
             Same(t) == t \in X => S \in X /\ from[p][t] = from[p][S]
  <1>1. \A t \in X : \A q \in Prereq(p, t) : q \in X /\ from[p][t] = from[p][q]
    BY DEF StampInv, UpToDate
  <1>2. Same(S)
    OBVIOUS
  <1>3. p \notin Override => Same("extracted") /\ Same("patched")
    <2> SUFFICES ASSUME p \notin Override PROVE Same("extracted") /\ Same("patched") OBVIOUS
    <2>1. "extracted" \in X => "downloaded" \in Prereq(p, "extracted")
      BY DEF Prereq, Rule, Steps
    <2>2. "patched" \in X => "extracted" \in Prereq(p, "patched")
      BY DEF Prereq, Rule, Steps
    <2> QED BY <1>1, <2>1, <2>2 DEF SourceStep
  <1>4. Same("configured")
    <2>1. CASE p \in Override
      <3>1. "rsynced" \in Prereq(p, "configured")
        BY <2>1 DEF Prereq, Rule, Steps
      <3> QED BY <1>1, <2>1, <3>1 DEF SourceStep
    <2>2. CASE p \notin Override
      <3>1. "patched" \in Prereq(p, "configured")
        BY <2>2 DEF Prereq, Rule, Steps
      <3> QED BY <1>1, <1>3, <2>2, <3>1
    <2> QED BY <2>1, <2>2
  <1>5. Same("built")
    <2>1. "configured" \in Prereq(p, "built")
      BY DEF Prereq, Rule, Steps
    <2> QED BY <1>1, <1>4, <2>1
  <1>6. ASSUME NEW t \in HostStep \cup TargetStep PROVE Same(t)
    <2>1. "built" \in Prereq(p, t)
      BY DEF Prereq, Rule, Steps, HostStep, TargetStep
    <2> QED BY <1>1, <1>5, <2>1
  <1>7. s \in Steps(p) /\ Install[p] \subseteq HostStep \cup TargetStep
    BY PkgAssumption
  <1>8. Same(s)
    <2>1. CASE s \in Install[p]
      BY <1>6, <1>7, <2>1
    <2>2. CASE s \notin Install[p]
      BY <1>2, <1>3, <1>4, <1>5, <1>7, <2>2 DEF Steps, SourceStep
    <2> QED BY <2>1, <2>2
  <1>9. s \notin partial[p] /\ S \in X
    BY <1>8 DEF StampInv
  <1>10. from[p][S] # 0
    BY <1>9 DEF StampInv, UpToDate
  <1> QED BY <1>8, <1>9, <1>10 DEF Sound

(* The steps before a step, with the step itself, are closed under the     *)
(* rules.                                                                  *)
LEMMA ChainClosed ==
    ASSUME NEW p \in Pkg, NEW s \in Steps(p)
    PROVE  /\ Chain[p][s] \in SUBSET Steps(p)
           /\ s \in Chain[p][s]
           /\ \A t \in Chain[p][s] : Prereq(p, t) \subseteq Chain[p][s]
  <1>1. Chain[p][s] = {x \in Steps(p) : \A S \in SUBSET Steps(p) :
                          ({s} \subseteq S /\ \A y \in S : Prereq(p, y) \subseteq S) => x \in S}
    BY DEF Chain, Least
  <1>2. \A t : Prereq(p, t) \subseteq Steps(p)
    BY DEF Prereq
  <1> QED BY <1>1, <1>2

(* The stamps are honest (StampsHonest), for every set of packages: what   *)
(* make would skip is complete and comes from one version of the source.   *)
THEOREM HonestyTheorem == Spec => []StampsHonest
  <1>1. IInv => StampsHonest
    <2> SUFFICES ASSUME IInv, NEW p \in Pkg, NEW s \in Steps(p),
                        \A q \in Chain[p][s] : UpToDate(p, q)
                 PROVE  Sound(p, s)
      BY DEF StampsHonest
    <2> QED BY ChainClosed, ChainSound DEF IInv
  <1> QED BY <1>1, Inductive, PTL

(* Type correctness. *)
THEOREM TypeTheorem == Spec => []TypeOK
  <1>1. IInv => TypeOK
    BY DEF IInv
  <1> QED BY <1>1, Inductive, PTL

(* make has been through the packages that the step being run uses. *)
LEMMA UsedConsidered ==
    ASSUME IInv, NEW j \in jobs, NEW d \in UsedBy(j.pkg, j.step)
    PROVE  d \in Pkg /\ Install[d] \subseteq considered[d]
  <1> DEFINE p == j.pkg
             s == j.step
  <1>1. p \in Pkg /\ s \in Step /\ s \in Steps(p)
    BY DEF IInv, TypeOK, JobType
  <1>2. d \in Pkg
    BY <1>1, PkgAssumption DEF UsedBy
  <1> DEFINE X == {s} \cup considered[p]
  <1>3. \A x \in X : /\ Prereq(p, x) \subseteq X
                     /\ \A e \in OrderOnly(p, x) : Install[e] \subseteq considered[e]
    BY <1>1 DEF IInv, ConsideredInv, JobInv
  <1>4. SourceStep(p) \in X /\ (s \in {"configured", "built"} \cup Install[p] => "configured" \in X)
    <2> HIDE DEF X
    <2>0. s \in X
      BY DEF X
    <2>1. s \in Install[p] => "built" \in X
      <3>1. s \in Install[p] => "built" \in Prereq(p, s)
        BY <1>1, PkgAssumption DEF Prereq, Rule, Steps, HostStep, TargetStep
      <3> QED BY <2>0, <3>1, <1>3
    <2>2. "built" \in X => "configured" \in X
      <3>1. "configured" \in Prereq(p, "built")
        BY DEF Prereq, Rule, Steps
      <3> QED BY <3>1, <1>3
    <2>3. "configured" \in X => SourceStep(p) \in X \/ (p \notin Override /\ "patched" \in X)
      <3>1. SourceStep(p) \in Prereq(p, "configured") \/ (p \notin Override /\ "patched" \in Prereq(p, "configured"))
        BY DEF Prereq, Rule, Steps, SourceStep
      <3> QED BY <3>1, <1>3
    <2>4. p \notin Override /\ "patched" \in X => "extracted" \in X
      <3>1. p \notin Override => "extracted" \in Prereq(p, "patched")
        BY DEF Prereq, Rule, Steps
      <3> QED BY <3>1, <1>3
    <2>5. p \notin Override /\ "extracted" \in X => SourceStep(p) \in X
      <3>1. p \notin Override => SourceStep(p) \in Prereq(p, "extracted")
        BY DEF Prereq, Rule, Steps, SourceStep
      <3> QED BY <3>1, <1>3
    <2>6. s \in Install[p] \cup {"configured", "built"} \/ s = SourceStep(p)
            \/ (p \notin Override /\ s \in {"extracted", "patched"})
      BY <1>1 DEF Steps, SourceStep
    <2> QED BY <2>0, <2>1, <2>2, <2>3, <2>4, <2>5, <2>6
  <1>5. Install[d] \subseteq considered[d]
    <2>1. CASE d \in Deps[p] /\ s \in {"configured", "built"} \cup Install[p]
      BY <2>1, <1>3, <1>4 DEF OrderOnly
    <2>2. CASE d \in HostPrereq /\ p \notin HostPrereq
      BY <2>2, <1>3, <1>4 DEF OrderOnly
    <2> QED BY <2>1, <2>2 DEF UsedBy
  <1> QED BY <1>2, <1>5

(* What a package needs is installed while its steps run (DepsInstalled).  *)
THEOREM DepsTheorem == Spec => []DepsInstalled
  <1>1. IInv => DepsInstalled
    <2> SUFFICES ASSUME IInv, NEW j \in jobs, NEW d \in UsedBy(j.pkg, j.step), NEW t \in Install[d]
                 PROVE  Sound(d, t)
      BY DEF DepsInstalled
    <2>1. d \in Pkg /\ Install[d] \subseteq considered[d]
      BY UsedConsidered
    <2>2. considered[d] \in SUBSET Steps(d)
      BY <2>1 DEF IInv, TypeOK
    <2>3. \A x \in considered[d] : UpToDate(d, x) /\ Prereq(d, x) \subseteq considered[d]
      BY <2>1 DEF IInv, ConsideredInv
    <2> QED BY <2>1, <2>2, <2>3, ChainSound DEF IInv
  <1> QED BY <1>1, Inductive, PTL

-------------------------------------------------------------------------------
(* What an image and a rebuild rest on. *)

(* The image is generated when everything is made, and make is asked for   *)
(* everything the image is made of.                                        *)
ImgInv ==
    /\ cmd.img => cmd.world /\ MadeAll
    /\ cmd.world => \A p \in Targets : Upto(p, Install[p]) \subseteq want[p]

(* The sources only ever get newer, a recipe reads them as they were when  *)
(* it started or later, and a rebuild first removes the stamp that would   *)
(* keep an overridden source tree from being copied again.                 *)
EditInv ==
    /\ \A p \in Pkg \ Override : src[p] = 1
    /\ ~Idle => cmd.src <= src[cmd.pkg]
    /\ \A j \in jobs : j.pkg = cmd.pkg => cmd.src <= j.src
    /\ cmd.kind \in {"rebuild", "reconfigure"} =>
          /\ Upto(cmd.pkg, Install[cmd.pkg]) \subseteq want[cmd.pkg]
          /\ cmd.pkg \in Override =>
                \/ rmq # <<>> /\ Head(rmq) = "rsynced"
                \/ "rsynced" \in stamp[cmd.pkg] => cmd.src <= from[cmd.pkg]["rsynced"]

(* The steps that a rebuild of a package leaves alone. *)
ConfSteps == {"downloaded", "extracted", "patched", "configured"}

(* A rebuild of a package that was built finds them up to date, unless its *)
(* source tree is overridden.                                              *)
KeepInv ==
    cmd.kind = "rebuild" /\ cmd.built /\ cmd.pkg \notin Override =>
        /\ \A s \in want[cmd.pkg] \cap ConfSteps : UpToDate(cmd.pkg, s)
        /\ \A i \in DOMAIN rmq : rmq[i] \notin ConfSteps

(* make is asked for all that the goals of an invocation stand for, and    *)
(* for no other step of the package it is invoked for.                     *)
LEMMA GoalHas ==
    ASSUME NEW p \in Pkg, NEW T \in SUBSET Steps(p), NEW seed \in SUBSET Pkg
    PROVE  /\ Upto(p, T) \subseteq Goal(p, T, seed)[p]
           /\ \A q \in seed : Upto(q, Install[q]) \subseteq Goal(p, T, seed)[q]
           /\ T = Install[p] => Goal(p, T, seed)[p] = Upto(p, T)
  <1> DEFINE more == UNION {OrderOnly(p, s) : s \in Upto(p, T)}
             all == Needed(seed \cup more)
             g == [q \in Pkg |-> (IF q = p THEN Upto(p, T) ELSE {}) \cup
                       (IF q \in all THEN Upto(q, Install[q]) ELSE {})]
  <1>1. Goal(p, T, seed) = g
    BY DEF Goal
  <1>2. seed \subseteq all
    <2> HIDE DEF more
    <2> QED BY DEF Needed, Least
  <1> HIDE DEF all
  <1> QED BY <1>1, <1>2

(* The ways make is invoked. *)
Invoked(kind, p, T, world, rms) ==
    /\ Invoke(kind, p, T, world, rms)
    /\ p \in Pkg /\ T \in SUBSET Steps(p) /\ world \in BOOLEAN
    /\ \/ kind \in {"world", "pkg"} /\ rms = <<>>
       \/ kind = "rebuild" /\ T = Install[p] /\ rms = CleanForRebuild(p)
       \/ kind = "reconfigure" /\ T = Install[p]
              /\ rms = Append(CleanForRebuild(p), "configured")

(* An invocation, for the three invariants. *)
LEMMA InvokeFacts ==
    ASSUME NEW kind, NEW p, NEW T, NEW world, NEW rms, Invoked(kind, p, T, world, rms)
    PROVE  /\ Idle /\ p \in Pkg
           /\ cmd'.kind = kind /\ cmd'.pkg = p /\ cmd'.world = world /\ ~cmd'.img
           /\ cmd'.src = src[p] /\ cmd'.built = Built(p) /\ rmq' = rms
           /\ Upto(p, T) \subseteq want'[p]
           /\ T = Install[p] => want'[p] = Upto(p, T)
           /\ world => \A q \in Targets : Upto(q, Install[q]) \subseteq want'[q]
           /\ jobs' = jobs /\ src' = src /\ stamp' = stamp /\ newer' = newer /\ from' = from
  <1>0. p \in Pkg /\ T \in SUBSET Steps(p) /\ world \in BOOLEAN /\ Invoke(kind, p, T, world, rms)
    BY Zenon DEF Invoked
  <1> PICK seed : seed = IF world THEN Targets ELSE {}
    OBVIOUS
  <1>1. seed \in SUBSET Pkg
    BY PkgAssumption
  <1>2. want' = Goal(p, T, seed)
    BY <1>0 DEF Invoke
  <1>3. /\ Upto(p, T) \subseteq want'[p]
        /\ T = Install[p] => want'[p] = Upto(p, T)
        /\ \A q \in seed : Upto(q, Install[q]) \subseteq want'[q]
    BY <1>0, <1>1, <1>2, GoalHas
  <1>4. world => \A q \in Targets : Upto(q, Install[q]) \subseteq want'[q]
    BY <1>3
  <1>5. /\ Idle
        /\ cmd'.kind = kind /\ cmd'.pkg = p /\ cmd'.world = world /\ ~cmd'.img
        /\ cmd'.src = src[p] /\ cmd'.built = Built(p) /\ rmq' = rms
        /\ jobs' = jobs /\ src' = src /\ stamp' = stamp /\ newer' = newer /\ from' = from
    BY <1>0 DEF Invoke, pkgVars
  <1> QED BY <1>0, <1>3, <1>4, <1>5, Zenon

(* What the user does: invoke make for goals, remove build directories, or *)
(* edit.                                                                   *)
LEMMA UserCases ==
    ASSUME User
    PROVE  \/ \E kind, p, T, world, rms : Invoked(kind, p, T, world, rms)
           \/ \E p \in Pkg : Dirclean(p) \/ Edit(p)
           \/ Clean
  <1>0. \A p \in Pkg : Install[p] \in SUBSET Steps(p)
    BY DEF Steps
  <1>1. ASSUME MakeWorld PROVE \E kind, p, T, world, rms : Invoked(kind, p, T, world, rms)
    <2>1. (CHOOSE p \in Pkg : TRUE) \in Pkg
      BY PkgAssumption
    <2>2. Invoked("world", CHOOSE p \in Pkg : TRUE, {}, TRUE, <<>>)
      BY <1>1, <2>1 DEF MakeWorld, Invoked
    <2> QED BY <2>2, Zenon
  <1>2. ASSUME NEW p \in Pkg, NEW T \in SUBSET Steps(p), MakePkg(p, T)
        PROVE  \E kind, q, U, world, rms : Invoked(kind, q, U, world, rms)
    <2>1. Invoked("pkg", p, T, FALSE, <<>>)
      BY <1>2 DEF MakePkg, Invoked
    <2> QED BY <2>1, Zenon
  <1>3. ASSUME NEW p \in Pkg, NEW w \in BOOLEAN, Rebuild(p, w)
        PROVE  \E kind, q, U, world, rms : Invoked(kind, q, U, world, rms)
    <2>1. Invoked("rebuild", p, Install[p], w, CleanForRebuild(p))
      BY <1>0, <1>3 DEF Rebuild, Invoked
    <2> QED BY <2>1, Zenon
  <1>4. ASSUME NEW p \in Pkg, NEW w \in BOOLEAN, Reconfigure(p, w)
        PROVE  \E kind, q, U, world, rms : Invoked(kind, q, U, world, rms)
    <2>1. Invoked("reconfigure", p, Install[p], w, Append(CleanForRebuild(p), "configured"))
      BY <1>0, <1>4 DEF Reconfigure, Invoked
    <2> QED BY <2>1, Zenon
  <1>5. ASSUME NEW p \in Pkg, NEW s \in Steps(p), MakePkg(p, {s})
        PROVE  \E kind, q, U, world, rms : Invoked(kind, q, U, world, rms)
    BY <1>2, <1>5
  <1> QED BY <1>0, <1>1, <1>2, <1>3, <1>4, <1>5 DEF User

(* make forgets its goals when it stops. *)
LEMMA StopFacts ==
    ASSUME Stop
    PROVE  /\ cmd'.kind = "none" /\ ~cmd'.img /\ ~cmd'.world /\ jobs' = {}
           /\ cmd'.src = 0 /\ Idle'
  BY DEF Stop, NoCmd, Idle

(* The ways make works. *)
LEMMA MakeCases ==
    ASSUME Make \/ Fail \/ Interrupt
    PROVE  \/ RemoveStamp
           \/ \E p \in Pkg : \E s \in want[p] : Skip(p, s) \/ Start(p, s)
           \/ \E j \in jobs : Touch(j) \/ StepEnd(j)
           \/ GenerateImage
           \/ Stop /\ src' = src
  BY DEF Make, Recipe, PatchFails, ImageDone, Done, Fail, Interrupt

(* Every step keeps ImgInv: nothing is made once the image is begun. *)
LEMMA ImgStep == IInv /\ ImgInv /\ [Next]_vars => ImgInv'
  <1> SUFFICES ASSUME IInv, ImgInv, [Next]_vars PROVE ImgInv'
    OBVIOUS
  <1>0. TypeOK
    BY DEF IInv
  <1>1. CASE User
    <2>1. ASSUME NEW kind, NEW p, NEW T, NEW world, NEW rms, Invoked(kind, p, T, world, rms)
          PROVE  ImgInv'
      BY <2>1, InvokeFacts DEF ImgInv
    <2>2. ASSUME UNCHANGED makeVars PROVE ImgInv'
      BY <2>2 DEF makeVars, ImgInv, MadeAll
    <2> QED BY <1>1, <2>1, <2>2, UserCases DEF Dirclean, Edit, Clean
  <1>2. CASE RemoveStamp
    BY <1>2 DEF RemoveStamp, ImgInv, MadeAll
  <1>3. ASSUME NEW p \in Pkg, NEW s \in want[p], Skip(p, s) \/ Start(p, s) PROVE ImgInv'
    <2>1. ~MadeAll
      BY <1>3 DEF Skip, Start, Ready, MadeAll
    <2>2. cmd' = cmd /\ want' = want
      BY <1>3 DEF Skip, Start
    <2> QED BY <2>1, <2>2 DEF ImgInv
  <1>4. ASSUME NEW j \in jobs, Touch(j) \/ StepEnd(j) PROVE ImgInv'
    <2>1. ~MadeAll
      BY DEF MadeAll
    <2>2. cmd' = cmd /\ want' = want
      BY <1>4 DEF Touch, StepEnd
    <2> QED BY <2>1, <2>2 DEF ImgInv
  <1>5. CASE GenerateImage
    <2>1. cmd'.world = cmd.world /\ cmd.world /\ MadeAll
      BY <1>0, <1>5 DEF GenerateImage, TypeOK
    <2>2. MadeAll'
      BY <1>5, <2>1 DEF GenerateImage, MadeAll
    <2>3. want' = want
      BY <1>5 DEF GenerateImage
    <2> QED BY <2>1, <2>2, <2>3 DEF ImgInv
  <1>6. CASE Stop
    BY <1>6, StopFacts DEF ImgInv
  <1>7. CASE UNCHANGED vars
    BY <1>7 DEF vars, makeVars, ImgInv, MadeAll
  <1> QED BY <1>1, <1>2, <1>3, <1>4, <1>5, <1>6, <1>7, MakeCases DEF Next

(* A sequence with something in front starts with it. *)
LEMMA HeadOfConcat ==
    ASSUME NEW S, NEW a \in Seq(S), NEW b \in Seq(S), Len(a) = 1
    PROVE  a \o b \in Seq(S) /\ a \o b # <<>> /\ Head(a \o b) = a[1]
  BY ConcatProperties

(* The stamp of an overridden tree goes first, and no stamp of a step that *)
(* configures goes otherwise.                                              *)
LEMMA CleanSeqFacts ==
    ASSUME NEW p \in Pkg
    PROVE  /\ p \in Override =>
                 /\ CleanForRebuild(p) # <<>> /\ Head(CleanForRebuild(p)) = "rsynced"
                 /\ Append(CleanForRebuild(p), "configured") # <<>>
                 /\ Head(Append(CleanForRebuild(p), "configured")) = "rsynced"
           /\ p \notin Override =>
                 \A i \in DOMAIN CleanForRebuild(p) : CleanForRebuild(p)[i] \notin ConfSteps
  <1> DEFINE b == <<"built", "staging_installed", "target_installed", "images_installed",
                    "host_installed">>
  <1>1. b \in Seq(Step) /\ <<"rsynced">> \in Seq(Step) /\ Len(b) = 5
    <2>1. \A i \in 1 .. 5 : b[i] \in Step
      BY DEF Step, TreeStep, HostStep, TargetStep
    <2>2. Len(b) = 5 /\ b \in Seq(Step)
      BY <2>1
    <2>3. "rsynced" \in Step
      BY DEF Step, TreeStep
    <2>4. <<"rsynced">> \in Seq(Step)
      BY <2>3
    <2> QED BY <2>2, <2>4
  <1>2. \A i \in 1 .. 5 : b[i] \notin ConfSteps
    BY DEF ConfSteps
  <1>3. p \in Override => CleanForRebuild(p) = <<"rsynced">> \o b
    BY DEF CleanForRebuild
  <1>4. p \notin Override => CleanForRebuild(p) = <<>> \o b
    BY DEF CleanForRebuild
  <1> HIDE DEF b
  <1>5. <<>> \o b = b
    BY <1>1
  <1>6. PICK a : a = <<"rsynced">>
    OBVIOUS
  <1>a. a \in Seq(Step) /\ Len(a) = 1 /\ a[1] = "rsynced"
    <2>1. "rsynced" \in Step
      BY DEF Step, TreeStep
    <2> QED BY <1>6, <2>1
  <1>b. PICK c : c = a \o b
    OBVIOUS
  <1>7. c \in Seq(Step) /\ c # <<>> /\ Head(c) = "rsynced"
    <2>1. b \in Seq(Step)
      BY <1>1
    <2>2. a \o b \in Seq(Step) /\ a \o b # <<>> /\ Head(a \o b) = a[1]
      BY <1>a, <2>1, HeadOfConcat
    <2> QED BY <1>a, <1>b, <2>2
  <1>8. Append(c, "configured") # <<>> /\ Head(Append(c, "configured")) = "rsynced"
    <2>1. "configured" \in Step
      BY DEF Step, TreeStep
    <2> QED BY <1>7, <2>1, AppendProperties
  <1>9. \A i \in DOMAIN b : b[i] \notin ConfSteps
    BY <1>1, <1>2
  <1>10. CASE p \in Override
    <2>1. CleanForRebuild(p) = c
      BY <1>3, <1>6, <1>b, <1>10
    <2> QED BY <1>7, <1>8, <1>10, <2>1
  <1>11. CASE p \notin Override
    <2>1. CleanForRebuild(p) = b
      BY <1>4, <1>5, <1>11
    <2> QED BY <1>9, <1>11, <2>1
  <1> QED BY <1>10, <1>11

(* Every step keeps EditInv: the rsync step reads the sources after the    *)
(* rebuild was asked for.                                                  *)
LEMMA EditStep == IInv /\ EditInv /\ [Next]_vars => EditInv'
  <1> SUFFICES ASSUME IInv, EditInv, [Next]_vars PROVE EditInv'
    OBVIOUS
  <1>0. /\ TypeOK /\ PhaseInv
        /\ src \in [Pkg -> Nat \ {0}] /\ cmd.pkg \in Pkg /\ cmd.src \in Nat
        /\ stamp \in [Pkg -> SUBSET Step] /\ from \in [Pkg -> [Step -> Nat]]
    BY DEF IInv, TypeOK
  <1>1. CASE User
    <2>1. ASSUME NEW kind, NEW p, NEW T, NEW world, NEW rms, Invoked(kind, p, T, world, rms)
          PROVE  EditInv'
      <3>1. /\ cmd'.kind = kind /\ cmd'.pkg = p /\ cmd'.src = src[p] /\ rmq' = rms
            /\ Upto(p, T) \subseteq want'[p] /\ src' = src /\ p \in Pkg /\ Idle /\ jobs' = jobs
        BY <2>1, InvokeFacts, Zenon
      <3>2. jobs' = {}
        BY <1>0, <3>1 DEF PhaseInv
      <3>3. src[p] <= src[p]
        BY <1>0, <3>1
      <3>4. ASSUME kind \in {"rebuild", "reconfigure"}
            PROVE  T = Install[p] /\ (p \in Override => rms # <<>> /\ Head(rms) = "rsynced")
        BY <2>1, <3>1, <3>4, CleanSeqFacts DEF Invoked
      <3> QED BY <3>1, <3>2, <3>3, <3>4 DEF EditInv
    <2>2. ASSUME Idle, UNCHANGED makeVars, src' = src PROVE EditInv'
      <3>1. jobs' = {} /\ cmd' = cmd /\ cmd.kind = "none"
        BY <1>0, <2>2 DEF makeVars, PhaseInv, Idle
      <3> QED BY <2>2, <3>1 DEF EditInv, Idle
    <2>3. ASSUME NEW p \in Pkg, Edit(p) PROVE EditInv'
      <3>1. /\ cmd' = cmd /\ jobs' = jobs /\ rmq' = rmq /\ want' = want
            /\ stamp' = stamp /\ from' = from
        BY <2>3 DEF Edit, makeVars, pkgVars
      <3>2. /\ \A q \in Pkg : src[q] <= src'[q] /\ src'[q] \in Nat
            /\ \A q \in Pkg \ Override : src'[q] = src[q]
        BY <1>0, <2>3 DEF Edit
      <3>3. ~Idle => cmd.src <= src'[cmd.pkg]
        BY <1>0, <3>2 DEF EditInv
      <3> QED BY <3>1, <3>2, <3>3 DEF EditInv, Idle
    <2> QED BY <1>1, <2>1, <2>2, <2>3, UserCases DEF Dirclean, Clean
  <1>2. CASE RemoveStamp
    <2>1. /\ cmd' = cmd /\ jobs' = jobs /\ src' = src /\ want' = want /\ from' = from
          /\ rmq # <<>>
      BY <1>2 DEF RemoveStamp
    <2>2. /\ stamp'[cmd.pkg] = stamp[cmd.pkg] \ {Head(rmq)}
      BY <1>0, <1>2 DEF RemoveStamp
    <2> QED BY <2>1, <2>2 DEF EditInv, Idle
  <1>3. ASSUME NEW p \in Pkg, NEW s \in want[p], Skip(p, s) PROVE EditInv'
    BY <1>3 DEF Skip, pkgVars, EditInv, Idle
  <1>4. ASSUME NEW p \in Pkg, NEW s \in want[p], Start(p, s) PROVE EditInv'
    <2>1. /\ cmd' = cmd /\ rmq' = rmq /\ src' = src /\ want' = want /\ from' = from
          /\ stamp' = stamp /\ jobs' = jobs \cup {Job(p, s, "cmds", src[p])}
      BY <1>4 DEF Start
    <2>2. ~Idle
      BY <1>0 DEF PhaseInv
    <2>3. PICK k : k = Job(p, s, "cmds", src[p])
      OBVIOUS
    <2>4. k.pkg = p /\ k.src = src[p]
      BY <2>3 DEF Job
    <2>5. k.pkg = cmd.pkg => cmd.src <= k.src
      BY <2>2, <2>4 DEF EditInv
    <2> QED BY <2>1, <2>3, <2>5 DEF EditInv, Idle
  <1>5. ASSUME NEW j \in jobs, Touch(j) PROVE EditInv'
    <2>1. cmd' = cmd /\ rmq' = rmq /\ src' = src /\ want' = want
      BY <1>5 DEF Touch
    <2>2. j.pkg \in Pkg /\ j.step \in Step /\ j.src \in Nat
      BY <1>0 DEF TypeOK, JobType
    <2>3. rmq = <<>>
      BY <1>0 DEF PhaseInv
    <2>4. PICK v \in Input(j) : from' = [from EXCEPT ![j.pkg][j.step] = v]
      BY <1>5 DEF Touch
    <2>5. stamp'[cmd.pkg] \subseteq stamp[cmd.pkg] \cup (IF j.pkg = cmd.pkg THEN {j.step} ELSE {})
      BY <1>0, <1>5, <2>2 DEF Touch
    <2>6. ASSUME NEW k \in jobs', k.pkg = cmd.pkg PROVE cmd.src <= k.src
      <3>1. PICK e : e = Job(j.pkg, j.step, "end", j.src)
        OBVIOUS
      <3>2. e.pkg = j.pkg /\ e.src = j.src
        BY <3>1 DEF Job
      <3>3. k \in jobs \/ k = e
        BY <1>5, <3>1 DEF Touch
      <3> QED BY <2>6, <3>2, <3>3 DEF EditInv
    <2>7. ASSUME cmd.kind \in {"rebuild", "reconfigure"}, cmd.pkg \in Override,
                 "rsynced" \in stamp'[cmd.pkg]
          PROVE  cmd.src <= from'[cmd.pkg]["rsynced"]
      <3>1. "rsynced" \in Step
        BY DEF Step, TreeStep
      <3>2. CASE j.pkg = cmd.pkg /\ j.step = "rsynced"
        <4>1. from'[cmd.pkg]["rsynced"] = v
          BY <1>0, <2>2, <2>4, <3>1, <3>2
        <4>2. v \in j.src .. src[j.pkg] /\ src[j.pkg] \in Nat
          BY <1>0, <2>2, <3>2 DEF Input
        <4>3. cmd.src <= j.src
          BY <3>2 DEF EditInv
        <4> QED BY <1>0, <2>2, <4>1, <4>2, <4>3
      <3>3. CASE ~(j.pkg = cmd.pkg /\ j.step = "rsynced")
        <4>1. from'[cmd.pkg]["rsynced"] = from[cmd.pkg]["rsynced"]
          BY <1>0, <2>2, <2>4, <3>1, <3>3
        <4>2. "rsynced" \in stamp[cmd.pkg]
          BY <2>5, <2>7, <3>3
        <4> QED BY <2>3, <2>7, <4>1, <4>2 DEF EditInv
      <3> QED BY <3>2, <3>3
    <2> QED BY <2>1, <2>6, <2>7 DEF EditInv, Idle
  <1>6. ASSUME NEW j \in jobs, StepEnd(j) PROVE EditInv'
    BY <1>6 DEF StepEnd, pkgVars, EditInv, Idle
  <1>7. CASE GenerateImage
    <2>1. cmd'.kind = cmd.kind /\ cmd'.pkg = cmd.pkg /\ cmd'.src = cmd.src
      BY <1>0, <1>7 DEF GenerateImage, TypeOK
    <2> QED BY <1>7, <2>1 DEF GenerateImage, pkgVars, EditInv, Idle
  <1>8. CASE Stop /\ src' = src
    BY <1>8, StopFacts DEF EditInv
  <1>9. CASE UNCHANGED vars
    BY <1>9 DEF vars, makeVars, pkgVars, EditInv, Idle
  <1> QED BY <1>1, <1>2, <1>3, <1>4, <1>5, <1>6, <1>7, <1>8, <1>9, MakeCases DEF Next

(* A prerequisite of a step that configures is one, unless the source tree *)
(* of the package is overridden.                                           *)
LEMMA ConfClosed ==
    ASSUME NEW p \in Pkg \ Override, NEW s \in ConfSteps, NEW q \in Prereq(p, s)
    PROVE  q \in ConfSteps
  <1>1. q \in Steps(p) /\ <<q, s>> \in Rule
    BY DEF Prereq
  <1>2. q # "rsynced"
    <2>1. Install[p] \subseteq HostStep \cup TargetStep
      BY PkgAssumption
    <2>2. "rsynced" \notin HostStep \cup TargetStep
      BY DEF HostStep, TargetStep
    <2> QED BY <1>1, <2>1, <2>2 DEF Steps
  <1> QED BY <1>1, <1>2 DEF Rule, ConfSteps

(* Every step keeps KeepInv: what a rebuild runs touches no stamp that a   *)
(* step that configures depends on.                                        *)
LEMMA KeepStep == IInv /\ KeepInv /\ [Next]_vars => KeepInv'
  <1> SUFFICES ASSUME IInv, KeepInv, [Next]_vars PROVE KeepInv'
    OBVIOUS
  <1> DEFINE Kept == cmd.kind = "rebuild" /\ cmd.built /\ cmd.pkg \notin Override
  <1>0. TypeOK /\ StampInv /\ JobInv /\ PhaseInv
    BY DEF IInv
  <1>a. cmd.pkg \in Pkg /\ rmq \in Seq(Step) /\ stamp \in [Pkg -> SUBSET Step]
    BY <1>0 DEF TypeOK
  <1>b. ASSUME UNCHANGED <<rmq, want, stamp, newer>>, cmd'.kind = cmd.kind,
               cmd'.pkg = cmd.pkg, cmd'.built = cmd.built
        PROVE  KeepInv'
    BY <1>b DEF KeepInv, UpToDate
  <1>1. CASE User
    <2>1. ASSUME NEW kind, NEW p, NEW T, NEW world, NEW rms, Invoked(kind, p, T, world, rms)
          PROVE  KeepInv'
      <3>1. /\ cmd'.kind = kind /\ cmd'.pkg = p /\ cmd'.built = Built(p) /\ rmq' = rms
            /\ T = Install[p] => want'[p] = Upto(p, T)
            /\ stamp' = stamp /\ newer' = newer /\ p \in Pkg
        BY <2>1, InvokeFacts, Zenon
      <3>2. SUFFICES ASSUME kind = "rebuild", Built(p), p \notin Override
                     PROVE  /\ \A s \in want'[p] \cap ConfSteps : UpToDate(p, s)'
                            /\ \A i \in DOMAIN rms : rms[i] \notin ConfSteps
        BY <3>1 DEF KeepInv
      <3>3. T = Install[p] /\ rms = CleanForRebuild(p)
        BY <2>1, <3>2 DEF Invoked
      <3>4. \A s \in want'[p] : UpToDate(p, s)
        BY <3>1, <3>2, <3>3 DEF Built
      <3>5. \A s : UpToDate(p, s) => UpToDate(p, s)'
        BY <3>1 DEF UpToDate
      <3>6. \A i \in DOMAIN rms : rms[i] \notin ConfSteps
        BY <3>1, <3>2, <3>3, CleanSeqFacts
      <3> QED BY <3>4, <3>5, <3>6
    <2>2. ASSUME Idle, UNCHANGED makeVars PROVE KeepInv'
      BY <2>2 DEF makeVars, KeepInv, Idle
    <2>3. ASSUME NEW p \in Pkg, Edit(p) PROVE KeepInv'
      BY <1>b, <2>3 DEF Edit, makeVars, pkgVars
    <2> QED BY <1>1, <2>1, <2>2, <2>3, UserCases DEF Dirclean, Clean
  <1>2. CASE RemoveStamp
    <2>1. cmd' = cmd /\ want' = want /\ newer' = newer /\ rmq # <<>> /\ rmq' = Tail(rmq)
      BY <1>2 DEF RemoveStamp
    <2>2. stamp'[cmd.pkg] = stamp[cmd.pkg] \ {Head(rmq)}
      BY <1>a, <1>2 DEF RemoveStamp
    <2>3. SUFFICES ASSUME Kept
                   PROVE  /\ \A s \in want[cmd.pkg] \cap ConfSteps : UpToDate(cmd.pkg, s)'
                          /\ \A i \in DOMAIN rmq' : rmq'[i] \notin ConfSteps
      BY <2>1 DEF KeepInv
    <2>4. /\ \A s \in want[cmd.pkg] \cap ConfSteps : UpToDate(cmd.pkg, s)
          /\ \A i \in 1 .. Len(rmq) : rmq[i] \notin ConfSteps
      BY <1>a, <2>3 DEF KeepInv
    <2>5. Head(rmq) \notin ConfSteps
      BY <1>a, <2>1, <2>4
    <2>6. \A i \in DOMAIN rmq' : rmq'[i] \notin ConfSteps
      BY <1>a, <2>1, <2>4
    <2>7. ASSUME NEW s \in want[cmd.pkg] \cap ConfSteps PROVE UpToDate(cmd.pkg, s)'
      <3>1. UpToDate(cmd.pkg, s) /\ s # Head(rmq)
        BY <2>4, <2>5
      <3> QED BY <2>1, <2>2, <3>1 DEF UpToDate
    <2> QED BY <2>6, <2>7
  <1>3. ASSUME NEW p \in Pkg, NEW s \in want[p], Skip(p, s) \/ Start(p, s) PROVE KeepInv'
    BY <1>b, <1>3 DEF Skip, Start, pkgVars
  <1>4. ASSUME NEW j \in jobs, Touch(j) PROVE KeepInv'
    <2>1. /\ cmd' = cmd /\ rmq' = rmq /\ want' = want
          /\ stamp' = [stamp EXCEPT ![j.pkg] = @ \cup {j.step}]
          /\ newer' = [newer EXCEPT ![j.pkg] = NewerAfter(j)]
      BY <1>4 DEF Touch
    <2>2. /\ j.pkg \in Pkg /\ j.step \in want[j.pkg] /\ j.step \in Steps(j.pkg)
          /\ newer \in [Pkg -> SUBSET Rule]
      BY <1>0 DEF TypeOK, JobType
    <2>3. j.step \in partial[j.pkg]
      BY <1>0, <1>4 DEF Touch, JobInv
    <2>4. ~UpToDate(j.pkg, j.step)
      BY <1>0, <2>2, <2>3 DEF StampInv
    <2>5. SUFFICES ASSUME Kept, NEW s \in want[cmd.pkg] \cap ConfSteps
                   PROVE  UpToDate(cmd.pkg, s)'
      BY <2>1 DEF KeepInv
    <2>6. \A t \in want[cmd.pkg] \cap ConfSteps : UpToDate(cmd.pkg, t)
      BY <2>5 DEF KeepInv
    <2>7. CASE j.pkg = cmd.pkg
      <3>1. j.step \notin ConfSteps
        BY <2>2, <2>4, <2>6, <2>7
      <3>2. PICK p : p = cmd.pkg
        OBVIOUS
      <3>3. p \in Pkg \ Override /\ s \in stamp'[p]
        BY <1>a, <2>1, <2>5, <2>6, <2>7, <3>2 DEF UpToDate
      <3>4. newer'[p] = NewerAfter(j)
        BY <2>1, <2>2, <2>7, <3>2
      <3>5. ASSUME NEW q \in Prereq(p, s) PROVE <<q, s>> \notin newer'[p]
        <4>1. q # j.step
          BY <3>1, <3>3, ConfClosed
        <4>2. <<q, s>> \notin newer[p]
          BY <2>6, <3>2 DEF UpToDate
        <4> QED BY <2>7, <3>2, <3>4, <4>1, <4>2 DEF NewerAfter
      <3> QED BY <2>1, <3>2, <3>3, <3>5 DEF UpToDate
    <2>8. CASE j.pkg # cmd.pkg
      <3>1. stamp'[cmd.pkg] = stamp[cmd.pkg] /\ newer'[cmd.pkg] = newer[cmd.pkg]
        BY <1>a, <2>1, <2>2, <2>8
      <3> QED BY <2>1, <2>6, <3>1 DEF UpToDate
    <2> QED BY <2>7, <2>8
  <1>5. ASSUME NEW j \in jobs, StepEnd(j) PROVE KeepInv'
    BY <1>b, <1>5 DEF StepEnd, pkgVars
  <1>6. CASE GenerateImage
    <2>1. cmd'.kind = cmd.kind /\ cmd'.pkg = cmd.pkg /\ cmd'.built = cmd.built
      BY <1>0, <1>6 DEF GenerateImage, TypeOK
    <2> QED BY <1>b, <1>6, <2>1 DEF GenerateImage, pkgVars
  <1>7. CASE Stop
    BY <1>7, StopFacts DEF KeepInv
  <1>8. CASE UNCHANGED vars
    BY <1>b, <1>8 DEF vars, makeVars, pkgVars
  <1> QED BY <1>1, <1>2, <1>3, <1>4, <1>5, <1>6, <1>7, <1>8, MakeCases DEF Next

-------------------------------------------------------------------------------
(* From these invariants to the action properties. *)

(* The three hold from the start: no make is running. *)
LEMMA MoreInit == Init => ImgInv /\ EditInv /\ KeepInv
  <1> SUFFICES ASSUME Init PROVE ImgInv /\ EditInv /\ KeepInv
    OBVIOUS
  <1>1. cmd.kind = "none" /\ ~cmd.img /\ ~cmd.world /\ jobs = {} /\ \A p \in Pkg : src[p] = 1
    BY DEF Init, NoCmd
  <1>2. EditInv
    BY <1>1 DEF EditInv, Idle
  <1> QED BY <1>1, <1>2 DEF ImgInv, KeepInv

(* Together with IInv, the three are an inductive invariant. *)
THEOREM MoreInductive == Spec => [](ImgInv /\ EditInv /\ KeepInv)
  <1>1. IInv /\ (ImgInv /\ EditInv /\ KeepInv) /\ [Next]_vars => (ImgInv /\ EditInv /\ KeepInv)'
    BY ImgStep, EditStep, KeepStep
  <1> QED BY <1>1, MoreInit, Inductive, PTL DEF Spec

(* Once everything is made, the install steps of a package that make was   *)
(* asked for are sound.                                                    *)
LEMMA MadeSound ==
    ASSUME IInv, MadeAll, NEW p \in Pkg, Upto(p, Install[p]) \subseteq want[p],
           NEW s \in Install[p]
    PROVE  Sound(p, s) /\ SourceStep(p) \in considered[p]
  <1>1. s \in Steps(p)
    BY DEF Steps
  <1>2. s \in Upto(p, Install[p])
    BY <1>1, ChainClosed DEF Upto
  <1>3. s \in considered[p]
    BY <1>2 DEF MadeAll
  <1>4. considered[p] \in SUBSET Steps(p)
    BY DEF IInv, TypeOK
  <1>5. \A t \in considered[p] : UpToDate(p, t) /\ Prereq(p, t) \subseteq considered[p]
    BY DEF IInv, ConsideredInv
  <1>6. StampInv
    BY DEF IInv
  <1> QED BY <1>3, <1>4, <1>5, <1>6, ChainSound

(* An image that is complete holds, for every enabled package, the         *)
(* complete result of its current build (ImageSound): target-finalize      *)
(* depends on $(TARGETS), and nothing is made after it.                    *)
THEOREM ImageTheorem == Spec => ImageSound
  <1> DEFINE Complete == image'.st = "done" /\ image.st # "done" =>
                        \A p \in Targets : "target_installed" \in Install[p] =>
                            /\ Sound(p, "target_installed")
                            /\ image'.from[p] = from[p][SourceStep(p)]
  <1>1. IInv /\ (ImgInv /\ EditInv /\ KeepInv) /\ [Next]_vars => [Complete]_vars
    <2> SUFFICES ASSUME IInv, ImgInv, [Next]_vars, image'.st = "done", image.st # "done",
                        NEW p \in Targets, "target_installed" \in Install[p]
                 PROVE  /\ Sound(p, "target_installed")
                        /\ image'.from[p] = from[p][SourceStep(p)]
      OBVIOUS
    <2>1. p \in Pkg
      BY PkgAssumption
    <2>2. ImageDone
      <3>1. image' # image /\ image' # NoImage /\ image'.st # "partial"
        BY DEF NoImage
      <3>2. ~UNCHANGED vars
        BY <3>1 DEF vars
      <3>3. ~User
        BY <3>1 DEF User, MakeWorld, MakePkg, Rebuild, Reconfigure, Invoke, Dirclean, Edit, Clean
      <3>4. ~Fail /\ ~Interrupt
        BY <3>1 DEF Fail, Interrupt
      <3>5. ~GenerateImage
        BY <3>1 DEF GenerateImage, IInv, TypeOK
      <3>6. Make => ImageDone
        BY <3>1, <3>5 DEF Make, RemoveStamp, Skip, Start, Recipe, Touch, StepEnd, PatchFails, Done
      <3> QED BY <3>2, <3>3, <3>4, <3>6 DEF Next
    <2>3. MadeAll /\ Upto(p, Install[p]) \subseteq want[p]
      BY <2>2 DEF ImageDone, ImgInv
    <2>4. Sound(p, "target_installed")
      BY <2>1, <2>3, MadeSound
    <2>5. image'.from[p] = from[p]["target_installed"]
      BY <2>2 DEF ImageDone
    <2> QED BY <2>4, <2>5 DEF Sound
  <1> QED BY <1>1, Inductive, MoreInductive, PTL DEF Spec, ImageSound

(* A rebuild or a reconfiguration that succeeds installs every edit made   *)
(* before it was called, and puts it in the image it generates             *)
(* (RebuildTakesEdits): removing .stamp_rsynced makes the overridden tree  *)
(* be copied again.                                                        *)
THEOREM EditsTheorem == Spec => RebuildTakesEdits
  <1> DEFINE TakesEdits ==
        cmd.kind \in {"rebuild", "reconfigure"} /\ MadeAll /\ cmd'.kind = "none"
            /\ spent' = spent =>
          /\ \A s \in Install[cmd.pkg] : from[cmd.pkg][s] >= cmd.src
          /\ cmd.world /\ cmd.pkg \in Targets /\ "target_installed" \in Install[cmd.pkg]
               => image'.from[cmd.pkg] >= cmd.src
  <1>1. IInv /\ (ImgInv /\ EditInv /\ KeepInv) /\ [Next]_vars => [TakesEdits]_vars
    <2> SUFFICES ASSUME IInv, EditInv, [Next]_vars,
                        cmd.kind \in {"rebuild", "reconfigure"}, MadeAll, cmd'.kind = "none",
                        spent' = spent
                 PROVE  /\ \A s \in Install[cmd.pkg] : from[cmd.pkg][s] >= cmd.src
                        /\ cmd.world /\ cmd.pkg \in Targets
                             /\ "target_installed" \in Install[cmd.pkg]
                             => image'.from[cmd.pkg] >= cmd.src
      OBVIOUS
    <2>1. PICK p : p = cmd.pkg
      OBVIOUS
    <2>2. /\ p \in Pkg /\ cmd.src \in Nat /\ rmq = <<>> /\ jobs = {} /\ ~Idle
          /\ from[p] \in [Step -> Nat] /\ SourceStep(p) \in Step
      BY <2>1, StepsType DEF IInv, TypeOK, MadeAll, Idle
    <2>3. ASSUME NEW s \in Install[p] PROVE from[p][s] >= cmd.src
      <3>1. Upto(p, Install[p]) \subseteq want[p]
        BY <2>1 DEF EditInv
      <3>2. Sound(p, s) /\ SourceStep(p) \in considered[p]
        BY <2>2, <3>1, MadeSound
      <3>3. SourceStep(p) \in stamp[p]
        BY <2>2, <3>2 DEF IInv, ConsideredInv, UpToDate
      <3>4. from[p][SourceStep(p)] >= cmd.src
        <4>1. CASE p \in Override
          <5>1. SourceStep(p) = "rsynced"
            BY <4>1 DEF SourceStep
          <5>2. cmd.src <= from[p]["rsynced"]
            BY <2>1, <2>2, <3>3, <4>1, <5>1 DEF EditInv
          <5>3. from[p]["rsynced"] \in Nat
            BY <2>2, <5>1
          <5> QED BY <2>2, <5>1, <5>2, <5>3
        <4>2. CASE p \notin Override
          <5>1. cmd.src <= 1
            BY <2>1, <2>2, <4>2 DEF EditInv
          <5>2. from[p][SourceStep(p)] \in Nat /\ from[p][SourceStep(p)] # 0
            BY <2>2, <3>2 DEF Sound
          <5> QED BY <2>2, <5>1, <5>2
        <4> QED BY <4>1, <4>2
      <3> QED BY <3>2, <3>4 DEF Sound
    <2>4. ASSUME cmd.world, p \in Targets, "target_installed" \in Install[p]
          PROVE  image'.from[p] >= cmd.src
      <3>1. ImageDone
        <4>1. cmd' # cmd /\ ~UNCHANGED vars
          BY DEF vars, makeVars
        <4>2. ~User
          <5>1. ~Edit(p) /\ \A q \in Pkg : ~Edit(q) /\ ~Dirclean(q)
            BY <4>1 DEF Edit, Dirclean, makeVars
          <5>2. ~Clean
            BY <4>1 DEF Clean, makeVars
          <5>3. \A kind, q, T, world, rms : ~Invoked(kind, q, T, world, rms)
            BY <2>2, InvokeFacts, Zenon
          <5> QED BY <5>1, <5>2, <5>3, UserCases
        <4>3. ~Fail /\ ~Interrupt
          <5>1. spent.faults \in Nat
            BY PkgAssumption DEF IInv, TypeOK
          <5>2. [spent EXCEPT !.faults = @ + 1] # spent
            BY <5>1 DEF IInv, TypeOK
          <5> QED BY <5>2 DEF Fail, Interrupt
        <4>4. ~GenerateImage
          BY <2>2 DEF GenerateImage, IInv, TypeOK, Idle
        <4>5. ~Done
          BY <2>4 DEF Done
        <4>6. Make => ImageDone
          BY <2>2, <4>1, <4>4, <4>5 DEF Make, RemoveStamp, Skip, Start, Recipe
        <4> QED BY <4>1, <4>2, <4>3, <4>6 DEF Next
      <3>2. image'.from[p] = from[p]["target_installed"]
        BY <2>4, <3>1 DEF ImageDone
      <3> QED BY <2>3, <2>4, <3>2
    <2> QED BY <2>1, <2>3, <2>4
  <1> QED BY <1>1, Inductive, MoreInductive, PTL DEF Spec, RebuildTakesEdits

(* Rebuilding a package that is built never configures it again, whatever  *)
(* the other packages are, unless its own source tree is overridden.       *)
THEOREM KeptTheorem ==
    Spec => [][\A j \in jobs' \ jobs :
                  ~ (cmd.kind = "rebuild" /\ cmd.built /\ cmd.pkg \notin Override
                       /\ j.pkg = cmd.pkg /\ j.step = "configured")]_vars
  <1> DEFINE KeepsConf == \A j \in jobs' \ jobs :
                        ~ (cmd.kind = "rebuild" /\ cmd.built /\ cmd.pkg \notin Override
                             /\ j.pkg = cmd.pkg /\ j.step = "configured")
  <1>1. IInv /\ (ImgInv /\ EditInv /\ KeepInv) /\ [Next]_vars => [KeepsConf]_vars
    <2> SUFFICES ASSUME IInv, KeepInv, [Next]_vars, NEW j \in jobs' \ jobs,
                        cmd.kind = "rebuild", cmd.built, cmd.pkg \notin Override,
                        j.pkg = cmd.pkg, j.step = "configured"
                 PROVE  FALSE
      OBVIOUS
    <2>1. "configured" \in want[cmd.pkg] => UpToDate(cmd.pkg, "configured")
      BY DEF KeepInv, ConfSteps
    <2>2. jobs' # jobs /\ jobs' # {} /\ ~Idle
      BY DEF Idle
    <2>3. ~User /\ ~UNCHANGED vars
      BY <2>2 DEF User, MakeWorld, MakePkg, Rebuild, Reconfigure, Invoke, Dirclean, Edit, Clean,
                  makeVars, vars
    <2>4. ASSUME NEW p \in Pkg, NEW s \in want[p], Start(p, s) PROVE FALSE
      <3>1. j = Job(p, s, "cmds", src[p])
        BY <2>4 DEF Start
      <3>2. p = cmd.pkg /\ s = "configured"
        BY <3>1 DEF Job
      <3> QED BY <2>1, <2>4, <3>2 DEF Start
    <2>5. ASSUME NEW k \in jobs, Touch(k) PROVE FALSE
      <3>1. j = Job(k.pkg, k.step, "end", k.src)
        BY <2>5 DEF Touch
      <3>2. k.pkg = cmd.pkg /\ k.step = "configured"
        BY <3>1 DEF Job
      <3>3. k.pkg \in Pkg /\ k.step \in want[k.pkg] /\ k.step \in Steps(k.pkg)
        BY DEF IInv, TypeOK, JobType
      <3>4. k.step \in partial[k.pkg]
        BY <2>5 DEF Touch, IInv, JobInv
      <3>5. ~UpToDate(k.pkg, k.step)
        BY <3>3, <3>4 DEF IInv, StampInv
      <3> QED BY <2>1, <3>2, <3>3, <3>5
    <2>6. \A k \in jobs : ~StepEnd(k)
      BY DEF StepEnd
    <2>7. ~Stop
      BY <2>2 DEF Stop
    <2>8. ~RemoveStamp /\ ~GenerateImage /\ \A p \in Pkg : \A s \in want[p] : ~Skip(p, s)
      BY <2>2 DEF RemoveStamp, GenerateImage, Skip
    <2> QED BY <2>3, <2>4, <2>5, <2>6, <2>7, <2>8, MakeCases DEF Next
  <1> QED BY <1>1, Inductive, MoreInductive, PTL DEF Spec

(* make <pkg>-rebuild of a package that is built re-runs its compilation,  *)
(* not its configuration (RebuildKeepsConfiguration), when no source tree  *)
(* is overridden; with an override the rsynced stamp it removes brings the *)
(* configure step back.                                                    *)
THEOREM KeepTheorem ==
    ASSUME Override = {}
    PROVE  Spec => RebuildKeepsConfiguration
  <1> DEFINE KeepsConf == \A j \in jobs' \ jobs :
                        ~ (cmd.kind = "rebuild" /\ cmd.built /\ cmd.pkg \notin Override
                             /\ j.pkg = cmd.pkg /\ j.step = "configured")
             KeepsAll == \A j \in jobs' \ jobs :
                        ~ (cmd.kind = "rebuild" /\ cmd.built
                             /\ j.pkg = cmd.pkg /\ j.step = "configured")
  <1>1. [KeepsConf]_vars => [KeepsAll]_vars
    OBVIOUS
  <1>2. Spec => [][KeepsConf]_vars
    BY KeptTheorem
  <1> QED BY <1>1, <1>2, PTL DEF RebuildKeepsConfiguration

-------------------------------------------------------------------------------
(* The build implements PackageStore. *)

(* Nothing on disk is made from a source newer than the current one. *)
FromInv == \A p \in Pkg : \A s \in Step : from[p][s] <= src[p]

(* Every step keeps FromInv: a source step reads a version between the one *)
(* it started with and the current one, the other steps work on that.      *)
LEMMA FromStep == IInv /\ FromInv /\ [Next]_vars => FromInv'
  <1> SUFFICES ASSUME IInv, FromInv, [Next]_vars PROVE FromInv'
    OBVIOUS
  <1>0. /\ TypeOK /\ src \in [Pkg -> Nat \ {0}] /\ from \in [Pkg -> [Step -> Nat]]
    BY DEF IInv, TypeOK
  <1>a. ASSUME src' = src, from' = from PROVE FromInv'
    BY <1>a DEF FromInv
  <1>1. CASE User
    <2>1. ASSUME NEW kind, NEW p, NEW T, NEW world, NEW rms, Invoked(kind, p, T, world, rms)
          PROVE  FromInv'
      BY <1>a, <2>1, InvokeFacts, Zenon
    <2>2. ASSUME NEW p \in Pkg, Dirclean(p) PROVE FromInv'
      <3>1. src' = src /\ \A q \in Pkg : \A s \in Step : from'[q][s] \in {0, from[q][s]}
        BY <1>0, <2>2 DEF Dirclean
      <3> QED BY <1>0, <3>1 DEF FromInv
    <2>3. ASSUME NEW p \in Pkg, Edit(p) PROVE FromInv'
      <3>1. from' = from /\ \A q \in Pkg : src'[q] \in {src[q], src[q] + 1}
        BY <1>0, <2>3 DEF Edit, pkgVars
      <3> QED BY <1>0, <3>1 DEF FromInv
    <2>4. ASSUME Clean PROVE FromInv'
      <3>1. src' = src /\ \A q \in Pkg : \A s \in Step : from'[q][s] = 0
        BY <2>4 DEF Clean
      <3> QED BY <1>0, <3>1 DEF FromInv
    <2> QED BY <1>1, <2>1, <2>2, <2>3, <2>4, UserCases
  <1>2. ASSUME NEW j \in jobs, Touch(j) PROVE FromInv'
    <2>1. j.pkg \in Pkg /\ j.step \in Step /\ j.src \in Nat
      BY <1>0 DEF TypeOK, JobType
    <2>2. PICK v \in Input(j) : from' = [from EXCEPT ![j.pkg][j.step] = v]
      BY <1>2 DEF Touch
    <2>3. v <= src[j.pkg]
      <3>1. CASE j.step \in {"rsynced", "downloaded"}
        BY <1>0, <2>1, <2>2, <3>1 DEF Input
      <3>2. CASE j.step \notin {"rsynced", "downloaded"}
        <4>1. PICK q \in Prereq(j.pkg, j.step) : v = from[j.pkg][q]
          BY <2>2, <3>2 DEF Input
        <4>2. q \in Step
          BY <2>1, PrereqFacts
        <4> QED BY <2>1, <4>1, <4>2 DEF FromInv
      <3> QED BY <3>1, <3>2
    <2>4. \A q \in Pkg : \A s \in Step :
              from'[q][s] = IF q = j.pkg /\ s = j.step THEN v ELSE from[q][s]
      BY <1>0, <2>1, <2>2
    <2>5. src' = src
      BY <1>2 DEF Touch
    <2> QED BY <2>3, <2>4, <2>5 DEF FromInv
  <1>3. ASSUME NEW p \in Pkg, NEW s \in want[p], Skip(p, s) \/ Start(p, s) PROVE FromInv'
    BY <1>a, <1>3 DEF Skip, Start, pkgVars
  <1>4. ASSUME NEW j \in jobs, StepEnd(j) \/ PatchFails(j) PROVE FromInv'
    BY <1>a, <1>4 DEF StepEnd, PatchFails, pkgVars
  <1>5. CASE RemoveStamp \/ GenerateImage \/ ImageDone \/ Done \/ Fail \/ Interrupt
    BY <1>a, <1>5 DEF RemoveStamp, GenerateImage, ImageDone, Done, Fail, Interrupt, pkgVars
  <1>6. CASE UNCHANGED vars
    BY <1>a, <1>6 DEF vars, pkgVars
  <1> QED BY <1>1, <1>2, <1>3, <1>4, <1>5, <1>6 DEF Next, Make, Recipe

(* A package that is installed anywhere goes through all of its steps. *)
LEMMA UptoAll ==
    ASSUME NEW p \in Pkg, Install[p] # {}
    PROVE  Upto(p, Install[p]) = Steps(p)
  <1>1. PICK U : U = Upto(p, Install[p])
    OBVIOUS
  <1>2. Install[p] \in SUBSET Steps(p)
    BY DEF Steps
  <1>3. U \subseteq Steps(p)
    BY <1>1, <1>2, UptoType
  <1>4. Install[p] \subseteq U /\ \A t \in U : Prereq(p, t) \subseteq U
    <2>1. \A s \in Install[p] : /\ s \in Chain[p][s]
                                /\ \A t \in Chain[p][s] : Prereq(p, t) \subseteq Chain[p][s]
      BY <1>2, ChainClosed
    <2> QED BY <1>1, <2>1 DEF Upto
  <1>5. "built" \in U
    <2>1. PICK s \in Install[p] : TRUE
      OBVIOUS
    <2>2. "built" \in Prereq(p, s)
      BY PkgAssumption DEF Prereq, Rule, Steps, HostStep, TargetStep
    <2> QED BY <1>4, <2>2
  <1>6. "configured" \in U
    <2>1. "configured" \in Prereq(p, "built")
      BY DEF Prereq, Rule, Steps
    <2> QED BY <1>4, <1>5, <2>1
  <1>7. CASE p \in Override
    <2>1. "rsynced" \in Prereq(p, "configured")
      BY <1>7 DEF Prereq, Rule, Steps
    <2> QED BY <1>1, <1>3, <1>4, <1>5, <1>6, <1>7, <2>1 DEF Steps
  <1>8. CASE p \notin Override
    <2>1. "patched" \in Prereq(p, "configured")
      BY <1>8 DEF Prereq, Rule, Steps
    <2>2. "extracted" \in Prereq(p, "patched")
      BY <1>8 DEF Prereq, Rule, Steps
    <2>3. "downloaded" \in Prereq(p, "extracted")
      BY <1>8 DEF Prereq, Rule, Steps
    <2>4. {"downloaded", "extracted", "patched"} \subseteq U
      BY <1>4, <1>6, <2>1, <2>2, <2>3
    <2> QED BY <1>1, <1>3, <1>4, <1>5, <1>6, <1>8, <2>4 DEF Steps
  <1> QED BY <1>7, <1>8

(* The package is there, for whoever goes by the stamps. *)
Here(p) == Install[p] # {} /\ \A s \in Steps(p) : UpToDate(p, s)

(* What is there is one version of the whole package, no newer than the    *)
(* source.                                                                 *)
HereInv ==
    /\ Installed = [p \in Pkg |-> IF Here(p) THEN {from[p][SourceStep(p)]} ELSE {}]
    /\ \A p \in Pkg : Here(p) =>
          /\ from[p][SourceStep(p)] \in 1 .. src[p]
          /\ \A s \in Install[p] : Sound(p, s)

(* It is so because the stamps are honest. *)
LEMMA HereSound == IInv /\ FromInv => HereInv
  <1> SUFFICES ASSUME IInv, FromInv
               PROVE  \A p \in Pkg :
                        /\ Installed[p] = IF Here(p) THEN {from[p][SourceStep(p)]} ELSE {}
                        /\ Here(p) => from[p][SourceStep(p)] \in 1 .. src[p]
                        /\ Here(p) => \A s \in Install[p] : Sound(p, s)
    BY DEF Installed, HereInv
  <1> TAKE p \in Pkg
  <1>0. /\ src[p] \in Nat /\ from[p] \in [Step -> Nat] /\ StampInv
        /\ SourceStep(p) \in Steps(p) /\ Steps(p) \subseteq Step
        /\ Install[p] \in SUBSET Steps(p)
    BY StepsType DEF IInv, TypeOK, Steps
  <1>1. Installed[p] = IF Built(p) THEN {IF s \in partial[p] THEN 0 ELSE from[p][s] : s \in Install[p]}
                       ELSE {}
    BY DEF Installed
  <1>2. CASE Install[p] = {}
    BY <1>1, <1>2 DEF Here
  <1>3. CASE Install[p] # {} /\ ~Here(p)
    BY <1>1, <1>3, UptoAll DEF Here, Built
  <1>4. CASE Here(p)
    <2>1. Built(p)
      BY <1>4, UptoAll DEF Here, Built
    <2>2. \A x \in Steps(p) : UpToDate(p, x) /\ Prereq(p, x) \subseteq Steps(p)
      BY <1>4 DEF Here, Prereq
    <2>3. \A s \in Install[p] : Sound(p, s)
      BY <1>0, <2>2, ChainSound
    <2>4. PICK t \in Install[p] : TRUE
      BY <1>4 DEF Here
    <2>5. \A s \in Install[p] : (IF s \in partial[p] THEN 0 ELSE from[p][s]) = from[p][SourceStep(p)]
      BY <2>3 DEF Sound
    <2>6. Installed[p] = {from[p][SourceStep(p)]}
      BY <1>1, <2>1, <2>4, <2>5
    <2>7. from[p][SourceStep(p)] # 0
      BY <2>3, <2>4 DEF Sound
    <2>8. from[p][SourceStep(p)] \in 1 .. src[p]
      <3>1. PICK v : v = from[p][SourceStep(p)]
        OBVIOUS
      <3>2. v \in Nat /\ v # 0 /\ v <= src[p]
        BY <1>0, <2>7, <3>1 DEF FromInv
      <3> QED BY <1>0, <3>1, <3>2
    <2> QED BY <1>4, <2>3, <2>6, <2>8
  <1> QED BY <1>2, <1>3, <1>4

(* What make has been through is there. *)
LEMMA ConsideredHere ==
    ASSUME IInv, NEW p \in Pkg, Install[p] # {}, Install[p] \subseteq considered[p]
    PROVE  Here(p)
  <1>1. /\ considered[p] \in SUBSET Steps(p)
        /\ \A t \in considered[p] : UpToDate(p, t) /\ Prereq(p, t) \subseteq considered[p]
    BY DEF IInv, TypeOK, ConsideredInv
  <1>2. Install[p] \subseteq Steps(p)
    BY DEF Steps
  <1>3. ASSUME NEW s \in Install[p] PROVE Chain[p][s] \subseteq considered[p]
    <2>1. Chain[p][s] = {x \in Steps(p) : \A S \in SUBSET Steps(p) :
                            ({s} \subseteq S /\ \A y \in S : Prereq(p, y) \subseteq S) => x \in S}
      BY <1>2 DEF Chain, Least
    <2> QED BY <1>1, <2>1
  <1>4. Upto(p, Install[p]) \subseteq considered[p]
    BY <1>3 DEF Upto
  <1> QED BY <1>1, <1>4, UptoAll DEF Here

(* A step that leaves every package as it was or takes it away. *)
LEMMA LoseStep ==
    ASSUME HereInv, HereInv', src' = src, Released' \in {Released, {}},
           \A p \in Pkg : Here(p)' =>
               Here(p) /\ from'[p][SourceStep(p)] = from[p][SourceStep(p)]
    PROVE  Store!Next
  <1>1. PICK S : S = {p \in Pkg : ~Here(p)'}
    OBVIOUS
  <1>2. Installed' = [p \in Pkg |-> IF Here(p)' THEN {from'[p][SourceStep(p)]} ELSE {}]
    BY DEF HereInv
  <1>3. \A p \in Pkg : Installed[p] = IF Here(p) THEN {from[p][SourceStep(p)]} ELSE {}
    BY DEF HereInv
  <1>4. Installed' = [p \in Pkg |-> IF p \in S THEN {} ELSE Installed[p]]
    BY <1>1, <1>2, <1>3
  <1>5. S \in SUBSET Pkg
    BY <1>1
  <1>6. Store!Lose(S)
    BY <1>4 DEF Store!Lose
  <1> QED BY <1>5, <1>6 DEF Store!Next

(* The packages that a step leaves alone. *)
LEMMA HereSame ==
    ASSUME NEW p \in Pkg, stamp'[p] \subseteq stamp[p], newer'[p] = newer[p]
    PROVE  Here(p)' => Here(p)
  BY DEF Here, UpToDate

(* The stamp of a step that others depend on makes these out of date. *)
LEMMA LateStep ==
    ASSUME IInv, NEW j \in jobs, Touch(j), Here(j.pkg)'
    PROVE  j.step \in {"configured", "built"} \cup Install[j.pkg]
  <1>1. PICK p, s : p = j.pkg /\ s = j.step
    OBVIOUS
  <1>2. p \in Pkg /\ s \in Steps(p) /\ newer \in [Pkg -> SUBSET Rule]
    BY <1>1 DEF IInv, TypeOK, JobType
  <1>3. \A r \in Rule : r[1] = s => r \in newer'[p]
    BY <1>1, <1>2 DEF Touch, NewerAfter
  <1>4. ASSUME NEW t \in Steps(p), s \in Prereq(p, t) PROVE FALSE
    <2>1. <<s, t>> \in Rule
      BY <1>4 DEF Prereq
    <2>2. <<s, t>> \in newer'[p]
      BY <1>3, <2>1
    <2> QED BY <1>1, <1>4, <2>2 DEF Here, UpToDate
  <1>5. s # "rsynced"
    <2>1. "configured" \in Steps(p) /\ (s = "rsynced" => s \in Prereq(p, "configured"))
      BY <1>2 DEF Steps, Prereq, Rule
    <2> QED BY <1>4, <2>1
  <1>6. p \notin Override => s \notin {"downloaded", "extracted", "patched"}
    <2>1. "configured" \in Steps(p) /\ (s = "patched" => s \in Prereq(p, "configured"))
      BY <1>2 DEF Steps, Prereq, Rule
    <2>2. ASSUME p \notin Override
          PROVE  /\ "extracted" \in Steps(p) /\ (s = "downloaded" => s \in Prereq(p, "extracted"))
                 /\ "patched" \in Steps(p) /\ (s = "extracted" => s \in Prereq(p, "patched"))
      BY <1>2, <2>2 DEF Steps, Prereq, Rule
    <2> QED BY <1>4, <2>1, <2>2
  <1> QED BY <1>1, <1>2, <1>5, <1>6 DEF Steps

(* Touching a stamp installs the package, if that was the last one, once   *)
(* what it needs is there, and changes nothing that is there otherwise.    *)
LEMMA TouchStore ==
    ASSUME IInv, HereInv, HereInv', NEW j \in jobs, Touch(j)
    PROVE  Store!Next
  <1>1. PICK p : p = j.pkg
    OBVIOUS
  <1>2. /\ p \in Pkg /\ j.step \in Step /\ j.step \in Steps(p)
        /\ src' = src /\ image' = image
        /\ stamp \in [Pkg -> SUBSET Step] /\ newer \in [Pkg -> SUBSET Rule]
        /\ from \in [Pkg -> [Step -> Nat]]
    BY <1>1 DEF IInv, TypeOK, JobType, Touch
  <1>3. ~Here(p)
    <2>1. j.step \in partial[p]
      BY <1>1 DEF Touch, IInv, JobInv
    <2>2. ~UpToDate(p, j.step)
      BY <1>2, <2>1 DEF IInv, StampInv
    <2> QED BY <1>2, <2>2 DEF Here
  <1>4. ASSUME NEW q \in Pkg, q # p
        PROVE  /\ Here(q)' <=> Here(q)
               /\ from'[q] = from[q]
    <2>1. stamp'[q] = stamp[q] /\ newer'[q] = newer[q] /\ from'[q] = from[q]
      BY <1>1, <1>2, <1>4 DEF Touch
    <2> QED BY <2>1 DEF Here, UpToDate
  <1>5. Released' = Released
    BY <1>2 DEF Released
  <1>6. CASE ~Here(p)'
    <2>1. \A q \in Pkg : Here(q)' => Here(q) /\ from'[q][SourceStep(q)] = from[q][SourceStep(q)]
      BY <1>4, <1>6
    <2> QED BY <1>2, <1>5, <2>1, LoseStep
  <1>7. CASE Here(p)'
    <2>1. PICK v : v = from'[p][SourceStep(p)]
      OBVIOUS
    <2>2. v \in 1 .. src[p]
      BY <1>2, <1>7, <2>1 DEF HereInv
    <2>3. Installed' = [Installed EXCEPT ![p] = {v}]
      <3>1. Installed' = [q \in Pkg |-> IF Here(q)' THEN {from'[q][SourceStep(q)]} ELSE {}]
        BY DEF HereInv
      <3>2. Installed = [q \in Pkg |-> IF Here(q) THEN {from[q][SourceStep(q)]} ELSE {}]
        BY DEF HereInv
      <3> QED BY <1>2, <1>4, <1>7, <2>1, <3>1, <3>2
    <2>4. Installed[p] = {}
      BY <1>2, <1>3 DEF HereInv
    <2>5. ASSUME NEW d \in UsedBy(p, "configured"), Install[d] # {}
          PROVE  Installed[d] # {}
      <3>1. d \in UsedBy(j.pkg, j.step)
        BY <1>1, <1>7, <2>5, LateStep DEF UsedBy
      <3>2. d \in Pkg /\ Install[d] \subseteq considered[d]
        BY <3>1, UsedConsidered
      <3>3. Here(d)
        BY <2>5, <3>2, ConsideredHere
      <3> QED BY <3>2, <3>3 DEF HereInv
    <2>6. Store!Provide(p)
      BY <1>2, <1>5, <2>2, <2>3, <2>4, <2>5 DEF Store!Provide
    <2> QED BY <1>2, <2>6 DEF Store!Next
  <1> QED BY <1>6, <1>7

(* The image is made of what is there. *)
LEMMA ImageStore ==
    ASSUME IInv, HereInv, HereInv', ImgInv, ImageDone
    PROVE  Store!Next
  <1>1. MadeAll /\ \A p \in Targets : Upto(p, Install[p]) \subseteq want[p]
    BY DEF ImageDone, ImgInv
  <1>2. /\ UNCHANGED <<stamp, newer, from, partial, src>>
        /\ image'.st = "done"
        /\ \A p \in Targets : image'.from[p] = from[p]["target_installed"]
    BY DEF ImageDone, pkgVars
  <1>3. ASSUME NEW p \in InImage
        PROVE  p \in Pkg /\ Installed[p] # {} /\ Installed[p] = {from[p]["target_installed"]}
    <2>1. p \in Targets /\ p \in Pkg /\ "target_installed" \in Install[p]
      BY <1>3, PkgAssumption DEF InImage
    <2>2. Install[p] \subseteq Upto(p, Install[p])
      <3>1. \A s \in Install[p] : s \in Steps(p)
        BY DEF Steps
      <3> QED BY <2>1, <3>1, ChainClosed DEF Upto
    <2>3. Install[p] \subseteq considered[p]
      BY <1>1, <2>1, <2>2 DEF MadeAll
    <2>4. Here(p)
      BY <2>1, <2>3, ConsideredHere
    <2>5. Sound(p, "target_installed")
      BY <2>1, <2>4 DEF HereInv
    <2> QED BY <2>1, <2>4, <2>5 DEF HereInv, Sound
  <1>4. Released' = {[p \in InImage |-> Installed[p]]}
    <2>1. Released' = {[p \in InImage |-> {image'.from[p]}]}
      BY <1>2 DEF Released
    <2>2. \A p \in InImage : {image'.from[p]} = Installed[p]
      BY <1>2, <1>3 DEF InImage
    <2> QED BY <2>1, <2>2
  <1>5. Installed' = Installed
    BY <1>2 DEF Installed, Built, UpToDate
  <1>6. Store!MakeImage
    BY <1>2, <1>3, <1>4, <1>5 DEF Store!MakeImage
  <1> QED BY <1>6 DEF Store!Next

(* Every step of make and of its user is a step of PackageStore. *)
LEMMA StoreStep ==
    IInv /\ HereInv /\ HereInv' /\ ImgInv /\ [Next]_vars => [Store!Next]_(Store!vars)
  <1> SUFFICES ASSUME IInv, HereInv, HereInv', ImgInv, [Next]_vars
               PROVE  Store!Next \/ UNCHANGED Store!vars
    OBVIOUS
  <1>0. /\ TypeOK /\ stamp \in [Pkg -> SUBSET Step] /\ cmd.pkg \in Pkg
        /\ image \in [st : {"none", "partial", "done"}, from : [Targets -> Nat]]
    BY DEF IInv, TypeOK
  <1>a. ASSUME src' = src, newer' = newer, from' = from, Released' \in {Released, {}},
               \A p \in Pkg : stamp'[p] \subseteq stamp[p]
        PROVE  Store!Next
    <2>1. \A p \in Pkg : Here(p)' => Here(p)
      BY <1>a, HereSame
    <2> QED BY <1>a, <2>1, LoseStep
  <1>b. image' = image => Released' \in {Released, {}}
    BY DEF Released
  <1>1. CASE User
    <2>1. ASSUME NEW kind, NEW p, NEW T, NEW world, NEW rms, Invoked(kind, p, T, world, rms)
          PROVE  Store!Next
      <3>1. src' = src /\ stamp' = stamp /\ newer' = newer /\ from' = from
        BY <2>1, InvokeFacts, Zenon
      <3>2. image' = image
        BY <2>1 DEF Invoked, Invoke
      <3> QED BY <1>a, <1>b, <3>1, <3>2
    <2>2. ASSUME NEW p \in Pkg, Dirclean(p) PROVE Store!Next
      <3>1. src' = src /\ image' = image /\ newer' = newer
        BY <2>2 DEF Dirclean
      <3>2. ASSUME NEW q \in Pkg, Here(q)'
            PROVE  Here(q) /\ from'[q][SourceStep(q)] = from[q][SourceStep(q)]
        <4>1. q # p
          <5>1. ASSUME q = p PROVE FALSE
            <6>1. stamp'[q] = {}
              BY <1>0, <2>2, <5>1 DEF Dirclean
            <6>2. SourceStep(q) \in Steps(q)
              BY StepsType
            <6> QED BY <3>2, <6>1, <6>2 DEF Here, UpToDate
          <5> QED BY <5>1
        <4>2. stamp'[q] = stamp[q] /\ from'[q] = from[q]
          BY <1>0, <2>2, <4>1 DEF Dirclean, TypeOK
        <4> QED BY <3>1, <3>2, <4>2, HereSame
      <3> QED BY <1>b, <3>1, <3>2, LoseStep
    <2>3. ASSUME NEW p \in Pkg, Edit(p) PROVE Store!Next
      <3>1. UNCHANGED <<stamp, newer, from, partial, image>>
            /\ src' = [src EXCEPT ![p] = @ + 1]
        BY <2>3 DEF Edit, pkgVars
      <3>2. Installed' = Installed
        BY <3>1 DEF Installed, Built, UpToDate
      <3>3. Released' = Released
        BY <3>1 DEF Released
      <3>4. Store!Edit(p)
        BY <3>1, <3>2, <3>3 DEF Store!Edit
      <3> QED BY <3>4 DEF Store!Next
    <2>4. ASSUME Clean PROVE Store!Next
      <3>1. src' = src /\ image' = NoImage /\ \A p \in Pkg : stamp'[p] = {}
        BY <2>4 DEF Clean
      <3>2. Released' = {}
        BY <3>1 DEF Released, NoImage
      <3>3. \A p \in Pkg : ~Here(p)'
        BY <3>1, StepsType DEF Here, UpToDate
      <3> QED BY <3>1, <3>2, <3>3, LoseStep
    <2> QED BY <1>1, <2>1, <2>2, <2>3, <2>4, UserCases
  <1>2. CASE RemoveStamp
    <2>1. \A p \in Pkg : stamp'[p] \subseteq stamp[p]
      BY <1>0, <1>2 DEF RemoveStamp
    <2> QED BY <1>a, <1>b, <1>2, <2>1 DEF RemoveStamp
  <1>3. ASSUME NEW p \in Pkg, NEW s \in want[p], Skip(p, s) \/ Start(p, s) PROVE Store!Next
    BY <1>a, <1>b, <1>3 DEF Skip, Start, pkgVars
  <1>4. ASSUME NEW j \in jobs, Touch(j) PROVE Store!Next
    BY <1>4, TouchStore
  <1>5. ASSUME NEW j \in jobs, StepEnd(j) \/ PatchFails(j) PROVE Store!Next
    BY <1>a, <1>b, <1>5 DEF StepEnd, PatchFails, pkgVars
  <1>6. CASE GenerateImage
    <2>1. image'.st = "partial"
      BY <1>0, <1>6 DEF GenerateImage
    <2>2. Released' = {}
      BY <2>1 DEF Released
    <2> QED BY <1>a, <1>6, <2>2 DEF GenerateImage, pkgVars
  <1>7. CASE ImageDone
    BY <1>7, ImageStore
  <1>8. CASE Done \/ Fail
    BY <1>a, <1>b, <1>8 DEF Done, Fail, pkgVars
  <1>9. CASE Interrupt
    <2>1. \A p \in Pkg : stamp'[p] \subseteq stamp[p]
      BY <1>9 DEF Interrupt
    <2>2. Released' \in {Released, {}}
      BY <1>9 DEF Interrupt, Released, NoImage
    <2> QED BY <1>a, <1>9, <2>1, <2>2 DEF Interrupt
  <1>10. CASE UNCHANGED vars
    BY <1>10 DEF vars, pkgVars, Store!vars, Installed, Built, UpToDate, Released
  <1> QED BY <1>1, <1>2, <1>3, <1>4, <1>5, <1>6, <1>7, <1>8, <1>9, <1>10 DEF Next, Make, Recipe

(* The steps and stamps of pkg-generic.mk implement PackageStore           *)
(* (WholePackages), for every set of packages and every history of         *)
(* requests and of failures and interruptions of builds: packages appear   *)
(* whole, in one version and after what they need, and go only as a whole. *)
THEOREM WholeTheorem == Spec => WholePackages
  <1>1. Init => FromInv /\ Store!Init
    <2> SUFFICES ASSUME Init PROVE FromInv /\ Store!Init
      OBVIOUS
    <2>1. FromInv
      BY DEF Init, FromInv
    <2>2. HereInv
      BY <2>1, SafeInit, HereSound
    <2>3. \A p \in Pkg : ~Here(p)
      BY StepsType DEF Init, Here, UpToDate
    <2>4. Installed = [p \in Pkg |-> {}]
      BY <2>2, <2>3 DEF HereInv
    <2>5. Released = {}
      BY DEF Init, NoImage, Released
    <2> QED BY <2>1, <2>4, <2>5 DEF Init, Store!Init
  <1>2. Spec => []FromInv
    BY <1>1, Inductive, FromStep, PTL DEF Spec
  <1>3. Spec => []HereInv
    BY <1>2, Inductive, HereSound, PTL
  <1>4. Spec => [](ImgInv)
    BY MoreInductive, PTL
  <1> QED BY <1>1, <1>3, <1>4, Inductive, StoreStep, PTL DEF Spec, WholePackages, Store!Spec
===============================================================================
