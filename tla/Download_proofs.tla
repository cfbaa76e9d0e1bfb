---------------------------- MODULE Download_proofs ----------------------------
(***************************************************************************)
(* The temporary file of DOWNLOAD_WGET keeps truncated archives out of the *)
(* download directory, for any number of sites, failures, interruptions    *)
(* and calls: for one build at a time with any faults, and for any number  *)
(* of builds side by side without faults.                                  *)
(***************************************************************************)
EXTENDS Download, TLAPS

(* No two builds at a time, or no command that fails. *)
Separate(s) == s.faults = 0 \/ \A b, c \in s.builds : b = c

OnlyWget == \A i \in DOMAIN Attempts : Attempts[i] = "wget"

(* A build that is in the middle of an attempt has not tried all sites. *)
Attempting == {"open", "write", "mv", "rmtmp", "checkout", "cloning"}

TodoInv ==
    /\ \A b \in Build : pc[b] \in Attempting => todo[b] # <<>>
    /\ \A b \in Build \ builds : pc[b] = "idle"

(* Without faults, somebody is writing to every incomplete file. *)
NoFaultInv ==
    /\ faults = 0
    /\ \A i \in 1 .. used : i \in whole \/
        \E b \in Build : pc[b] = "write" /\ fd[b] = i /\ writer[i] = b

(* One build that only uses wget: the archive is complete and is not the   *)
(* temporary file, which is what the build writes and then moves.          *)
OneBuildInv ==
    /\ \A b, c \in builds : b = c
    /\ OnlyWget =>
        /\ \A b \in Build : /\ \A i \in DOMAIN todo[b] : todo[b][i] = "wget"
                            /\ pc[b] = "write" => fd[b] = tmp /\ writer[tmp] = b
                            /\ pc[b] = "mv" => tmp \in whole
                            /\ pc[b] \notin {"checkout", "cloning", "rmclone"}
        /\ archive # None => archive \in whole /\ archive # tmp

IInv == TypeOK /\ TodoInv /\ (NoFaultInv \/ OneBuildInv)

(* The sites that are tried. *)
LEMMA AttemptsType == TypeOK => Attempts \in Seq(Method)
  <1> SUFFICES ASSUME TypeOK PROVE Attempts \in Seq(Method) OBVIOUS
  <1>1. site.scheme \in Method /\ site.primary \in {"none", "wget", "scp"}
    BY DEF TypeOK, SiteConfig
  <1>2. site.primary # "none" => site.primary \in Method
    BY <1>1 DEF Method, CopyMethod
  <1>3. "wget" \in Method
    BY DEF Method
  <1>4. (IF site.primary = "none" THEN <<>> ELSE <<site.primary>>) \in Seq(Method)
    BY <1>2
  <1>5. (IF site.backup THEN <<"wget">> ELSE <<>>) \in Seq(Method)
    BY <1>3
  <1>6. (IF site.only THEN <<>>
         ELSE <<site.scheme>> \o (IF site.backup THEN <<"wget">> ELSE <<>>)) \in Seq(Method)
    BY <1>1, <1>5
  <1> QED BY <1>4, <1>6 DEF Attempts

(* The download directory is empty and no build runs. *)
LEMMA InitType == Init => TypeOK /\ TodoInv
  <1> SUFFICES ASSUME Init PROVE TypeOK /\ TodoInv OBVIOUS
  <1>1. todo \in [Build -> Seq(Method)]
    BY DEF Init
  <1>2. builds \subseteq Build /\ site \in SiteConfig /\ faults \in Nat
    BY DownloadAssumption DEF Init
  <1>3. TypeOK
    BY <1>1, <1>2, DownloadAssumption DEF Init, TypeOK, None, Pc
  <1> QED BY <1>3 DEF Init, TodoInv, Attempting

(* Nothing is downloaded when the first build starts. *)
LEMMA InitInv ==
    ASSUME \A s \in Scenarios : Separate(s), Init PROVE IInv
  <1>0. PICK s \in Scenarios : builds = s.builds /\ site \in s.sites /\ faults = s.faults
    BY DEF Init
  <1>1. TypeOK /\ TodoInv
    BY InitType
  <1>3. CASE s.faults = 0
    <2>1. NoFaultInv
      BY <1>0, <1>3 DEF Init, NoFaultInv
    <2> QED BY <1>1, <2>1 DEF IInv
  <1>4. CASE \A b, c \in s.builds : b = c
    <2>1. \A b \in Build : todo[b] = <<>> /\ pc[b] = "idle"
      BY DEF Init
    <2>2. OneBuildInv
      BY <1>0, <1>4, <2>1 DEF Init, OneBuildInv
    <2> QED BY <1>1, <2>2 DEF IInv
  <1> QED BY <1>0, <1>3, <1>4 DEF Separate
-----------------------------------------------------------------------------
(* The inode a build writes to next. *)
LEMMA OpenFacts ==
    ASSUME TypeOK, NEW b \in Build, OpenOutput(b)
    PROVE  \E old, new \in 0 .. MaxInode :
              /\ old = (IF ToTmp(b) THEN tmp ELSE archive)
              /\ new = (IF old # None THEN old ELSE used + 1)
              /\ new \in 1 .. used' /\ used' \in 0 .. MaxInode /\ used <= used'
              /\ used' = (IF old # None THEN used ELSE used + 1)
              /\ writer' = [writer EXCEPT ![new] = b] /\ whole' = whole \ {new}
              /\ fd' = [fd EXCEPT ![b] = new] /\ pc' = [pc EXCEPT ![b] = "write"]
              /\ IF ToTmp(b) THEN tmp' = new /\ archive' = archive
                             ELSE archive' = new /\ tmp' = tmp
              /\ pc[b] = "open" /\ UNCHANGED <<builds, site, clone, todo, faults>>
  <1> DEFINE old == IF ToTmp(b) THEN tmp ELSE archive
             new == IF old # None THEN old ELSE used + 1
  <1>1. old \in 0 .. used /\ used \in 0 .. MaxInode
    BY DEF TypeOK
  <1>2. new \in 1 .. MaxInode
    BY DEF OpenOutput, Inode
  <1>3. new \in 0 .. MaxInode /\ old \in 0 .. MaxInode
    BY <1>1, <1>2, DownloadAssumption
  <1>4. used' = (IF old # None THEN used ELSE used + 1)
    BY DEF OpenOutput
  <1>5. new \in 1 .. used' /\ used' \in 0 .. MaxInode /\ used <= used'
    <2> HIDE DEF old
    <2> QED BY <1>1, <1>2, <1>4, DownloadAssumption DEF None
  <1>6. /\ writer' = [writer EXCEPT ![new] = b] /\ whole' = whole \ {new}
        /\ fd' = [fd EXCEPT ![b] = new] /\ pc' = [pc EXCEPT ![b] = "write"]
        /\ IF ToTmp(b) THEN tmp' = new /\ archive' = archive
                       ELSE archive' = new /\ tmp' = tmp
        /\ pc[b] = "open" /\ UNCHANGED <<builds, site, clone, todo, faults>>
    BY DEF OpenOutput, Goto, setting
  <1> HIDE DEF old, new
  <1> QED BY <1>3, <1>4, <1>5, <1>6 DEF old, new

(* Going on to the next site. *)
LEMMA NextSiteType ==
    ASSUME TypeOK, TodoInv, NEW b \in Build, pc[b] \in Attempting, NextSite(b)
    PROVE  todo' \in [Build -> Seq(Method)]
  <1>1. todo[b] \in Seq(Method) /\ todo[b] # <<>>
    BY DEF TypeOK, TodoInv
  <1>2. Tail(todo[b]) \in Seq(Method)
    BY <1>1
  <1> QED BY <1>2 DEF NextSite, TypeOK

(* The directory and the builds keep their types. *)
LEMMA TypeStep == ASSUME TypeOK, TodoInv, NEW b \in Build,
                         Begin(b) \/ Command(b) \/ TransferFails(b) \/ Interrupt(b)
                  PROVE  TypeOK' /\ TodoInv'
  <1> USE DEF Goto, disk, setting
  <1>1. CASE Begin(b)
    <2>1. todo' \in [Build -> Seq(Method)]
      BY <1>1, AttemptsType DEF Begin, TypeOK
    <2> QED BY <1>1, <2>1 DEF Begin, TypeOK, TodoInv, Attempting, Pc
  <1>2. CASE Exhausted(b)
    BY <1>2 DEF Exhausted, TypeOK, TodoInv, Attempting, Pc
  <1>3. CASE TestExists(b)
    BY <1>3 DEF TestExists, TypeOK, TodoInv, Attempting, Pc
  <1>4. CASE OpenOutput(b)
    <2>1. PICK old, new \in 0 .. MaxInode :
              /\ old = (IF ToTmp(b) THEN tmp ELSE archive)
              /\ new = (IF old # None THEN old ELSE used + 1)
              /\ new \in 1 .. used' /\ used' \in 0 .. MaxInode /\ used <= used'
              /\ used' = (IF old # None THEN used ELSE used + 1)
              /\ writer' = [writer EXCEPT ![new] = b] /\ whole' = whole \ {new}
              /\ fd' = [fd EXCEPT ![b] = new] /\ pc' = [pc EXCEPT ![b] = "write"]
              /\ IF ToTmp(b) THEN tmp' = new /\ archive' = archive
                             ELSE archive' = new /\ tmp' = tmp
              /\ pc[b] = "open" /\ UNCHANGED <<builds, site, clone, todo, faults>>
      BY <1>4, OpenFacts
    <2>2. fd' \in [Build -> 0 .. used'] /\ archive' \in 0 .. used' /\ tmp' \in 0 .. used'
      BY <2>1 DEF TypeOK
    <2>3. pc' \in [Build -> Pc]
      BY <2>1 DEF TypeOK, Pc
    <2>4. writer' \in [Inode -> Build \cup {"nobody"}] /\ whole' \subseteq 1 .. used'
      <3>1. \A i \in 1 .. used : i \in 1 .. used'
        BY <2>1 DEF TypeOK
      <3>2. whole' \subseteq 1 .. used'
        BY <2>1, <3>1 DEF TypeOK
      <3> QED BY <2>1, <3>2 DEF TypeOK
    <2>5. \A c \in Build : fd'[c] # None <=> pc'[c] = "write"
      BY <2>1 DEF TypeOK, None
    <2>6. TypeOK'
      BY <2>1, <2>2, <2>3, <2>4, <2>5 DEF TypeOK
    <2>7. TodoInv'
      BY <2>1 DEF TodoInv, Attempting, TypeOK
    <2> QED BY <2>6, <2>7
  <1>5. CASE WriteAll(b)
    <2>1. fd[b] \in 1 .. used /\ fd[b] \in Inode
      <3>1. fd[b] \in 0 .. used /\ fd[b] # 0 /\ used \in 0 .. MaxInode
        BY <1>5 DEF WriteAll, TypeOK, None
      <3> QED BY <3>1, DownloadAssumption DEF Inode
    <2>2. whole' \subseteq 1 .. used /\ writer' \in [Inode -> Build \cup {"nobody"}]
      BY <1>5, <2>1 DEF WriteAll, TypeOK
    <2>3. pc' \in [Build -> Pc] /\ pc'[b] \notin {"write", "open", "rmtmp", "checkout", "cloning"}
          /\ \A c \in Build : c # b => pc'[c] = pc[c]
      BY <1>5 DEF WriteAll, TypeOK, Pc
    <2>4. fd' \in [Build -> 0 .. used] /\ \A c \in Build : fd'[c] # None <=> pc'[c] = "write"
      BY <1>5, <2>3 DEF WriteAll, TypeOK, None
    <2> QED BY <1>5, <2>2, <2>3, <2>4 DEF WriteAll, TypeOK, TodoInv, Attempting
  <1>6. CASE MoveTmp(b)
    <2>1. archive' \in 0 .. used /\ tmp' \in 0 .. used
      BY <1>6 DEF MoveTmp, TypeOK, None
    <2>2. /\ pc' \in [Build -> Pc] /\ \A c \in Build : c # b => pc'[c] = pc[c]
          /\ pc'[b] \in {"rmtmp", "done"} /\ pc[b] = "mv"
      BY <1>6 DEF MoveTmp, TypeOK, Pc
    <2> QED BY <1>6, <2>1, <2>2 DEF MoveTmp, TypeOK, TodoInv, Attempting
  <1>7. CASE RemoveTmp(b)
    <2>1. todo' \in [Build -> Seq(Method)]
      BY <1>7, NextSiteType DEF RemoveTmp, Attempting
    <2> QED BY <1>7, <2>1 DEF RemoveTmp, NextSite, TypeOK, TodoInv, Attempting, Pc, None
  <1>8. CASE Checkout(b)
    <2>1. todo' \in [Build -> Seq(Method)]
      BY <1>8, NextSiteType DEF Checkout, Attempting, TypeOK
    <2> QED BY <1>8, <2>1 DEF Checkout, NextSite, TypeOK, TodoInv, Attempting, Pc
  <1>9. CASE CheckoutDone(b)
    BY <1>9 DEF CheckoutDone, TypeOK, TodoInv, Attempting, Pc
  <1>10. CASE RemoveClone(b)
    BY <1>10 DEF RemoveClone, TypeOK, TodoInv, Attempting, Pc
  <1>11. CASE TransferFails(b)
    <2>1. todo' \in [Build -> Seq(Method)]
      BY <1>11, NextSiteType DEF TransferFails, Attempting, TypeOK
    <2>2. clone' \in {"none", "partial", "complete"}
      BY <1>11 DEF TransferFails, CloneLeft, TypeOK
    <2>3. fd' \in [Build -> 0 .. used] /\ fd'[b] = None
          /\ \A c \in Build : c # b => fd'[c] = fd[c]
      BY <1>11 DEF TransferFails, TypeOK, None
    <2>4. /\ pc' \in [Build -> Pc] /\ \A c \in Build : c # b => pc'[c] = pc[c]
          /\ pc'[b] \in {"rmtmp", "test"} /\ (pc'[b] = "rmtmp" => todo' = todo)
          /\ \A c \in Build : c # b => todo'[c] = todo[c]
      BY <1>11 DEF TransferFails, NextSite, TypeOK, Pc
    <2> QED BY <1>11, <2>1, <2>2, <2>3, <2>4 DEF TransferFails, TypeOK, TodoInv, Attempting
  <1>12. CASE Interrupt(b)
    <2>1. clone' \in {"none", "partial", "complete"}
      BY <1>12 DEF Interrupt, CloneLeft, TypeOK
    <2> QED BY <1>12, <2>1 DEF Interrupt, TypeOK, TodoInv, Attempting, Pc, None
  <1> QED BY <1>1, <1>2, <1>3, <1>4, <1>5, <1>6, <1>7, <1>8, <1>9, <1>10, <1>11, <1>12
          DEF Command

(* Somebody writes to every incomplete file as long as nothing fails. *)
LEMMA NoFaultStep ==
    ASSUME TypeOK, TypeOK', NoFaultInv, NEW b \in Build,
           Begin(b) \/ Command(b) \/ TransferFails(b) \/ Interrupt(b)
    PROVE  NoFaultInv'
  <1> USE DEF Goto, disk, setting
  <1>0. pc \in [Build -> Pc] /\ fd \in [Build -> 0 .. used] /\ faults = 0 /\ used \in Nat
    BY DEF TypeOK, NoFaultInv
  <1>1. ASSUME UNCHANGED <<faults, used, whole, writer, fd>>, pc[b] # "write",
               \A c \in Build : c # b => pc'[c] = pc[c]
        PROVE  NoFaultInv'
    <2>1. SUFFICES ASSUME NEW i \in 1 .. used, i \notin whole
                   PROVE  \E c \in Build : pc'[c] = "write" /\ fd[c] = i /\ writer[i] = c
      BY <1>0, <1>1 DEF NoFaultInv
    <2>2. PICK c \in Build : pc[c] = "write" /\ fd[c] = i /\ writer[i] = c
      BY <2>1 DEF NoFaultInv
    <2> QED BY <1>1, <2>2
  <1>2. CASE Begin(b)
    BY <1>0, <1>1, <1>2 DEF Begin
  <1>3. CASE Exhausted(b)
    BY <1>0, <1>1, <1>3 DEF Exhausted
  <1>4. CASE TestExists(b)
    BY <1>0, <1>1, <1>4 DEF TestExists
  <1>5. CASE OpenOutput(b)
    <2>1. PICK new : /\ new \in 1 .. used' /\ whole' = whole \ {new} /\ faults' = faults
                     /\ used' = used \/ (used' = used + 1 /\ new = used + 1)
                     /\ writer' = [writer EXCEPT ![new] = b]
                     /\ fd' = [fd EXCEPT ![b] = new] /\ pc' = [pc EXCEPT ![b] = "write"]
                     /\ pc[b] = "open" /\ used' \in 0 .. MaxInode
      BY <1>0, <1>5, OpenFacts
    <2>2. SUFFICES ASSUME NEW i \in 1 .. used', i \notin whole'
                   PROVE  \E c \in Build : pc'[c] = "write" /\ fd'[c] = i /\ writer'[i] = c
      BY <1>0, <2>1 DEF NoFaultInv
    <2>3. CASE i = new
      <3>1. new \in Inode
        BY <2>1, DownloadAssumption DEF Inode
      <3> QED BY <1>0, <2>1, <2>3, <3>1 DEF TypeOK
    <2>4. CASE i # new
      <3>1. i \in 1 .. used /\ i \notin whole
        BY <1>0, <2>1, <2>2, <2>4
      <3>2. PICK c \in Build : pc[c] = "write" /\ fd[c] = i /\ writer[i] = c
        BY <3>1 DEF NoFaultInv
      <3>3. c # b
        BY <2>1, <3>2
      <3>4. pc'[c] = "write" /\ fd'[c] = i /\ writer'[i] = c
        BY <1>0, <2>1, <2>4, <3>2, <3>3 DEF TypeOK
      <3> QED BY <3>4
    <2> QED BY <2>3, <2>4
  <1>6. CASE WriteAll(b)
    <2>1. SUFFICES ASSUME NEW i \in 1 .. used, i \notin whole'
                   PROVE  \E c \in Build : pc'[c] = "write" /\ fd'[c] = i /\ writer'[i] = c
      BY <1>0, <1>6 DEF NoFaultInv, WriteAll
    <2>2. i \notin whole
      BY <1>6, <2>1 DEF WriteAll
    <2>3. PICK c \in Build : pc[c] = "write" /\ fd[c] = i /\ writer[i] = c
      BY <2>1, <2>2 DEF NoFaultInv
    <2>4. c # b
      BY <1>6, <2>1, <2>3 DEF WriteAll
    <2>5. pc'[c] = "write" /\ fd'[c] = i
      BY <1>0, <1>6, <2>3, <2>4 DEF WriteAll
    <2>6. writer'[i] = c
      <3>1. CASE writer[fd[b]] = b
        <4>1. writer' = [writer EXCEPT ![fd[b]] = "nobody"] /\ i # fd[b]
          BY <1>6, <2>3, <2>4, <3>1 DEF WriteAll
        <4> QED BY <2>3, <4>1 DEF TypeOK
      <3>2. CASE writer[fd[b]] # b
        BY <1>6, <2>3, <3>2 DEF WriteAll
      <3> QED BY <3>1, <3>2
    <2> QED BY <2>5, <2>6
  <1>7. CASE MoveTmp(b)
    BY <1>0, <1>1, <1>7 DEF MoveTmp
  <1>8. CASE RemoveTmp(b)
    BY <1>0, <1>1, <1>8 DEF RemoveTmp, NextSite
  <1>9. CASE Checkout(b)
    BY <1>0, <1>1, <1>9 DEF Checkout, NextSite
  <1>10. CASE CheckoutDone(b) \/ RemoveClone(b)
    BY <1>0, <1>1, <1>10 DEF CheckoutDone, RemoveClone
  <1>11. CASE TransferFails(b) \/ Interrupt(b)
    BY <1>0, <1>11 DEF TransferFails, Interrupt
  <1> QED BY <1>2, <1>3, <1>4, <1>5, <1>6, <1>7, <1>8, <1>9, <1>10, <1>11 DEF Command

(* What the temporary file is for: only what is complete is moved. *)
LEMMA OneBuildStep ==
    ASSUME TypeOK, TodoInv, OneBuildInv, NEW b \in Build, TypeOK',
           Begin(b) \/ Command(b) \/ TransferFails(b) \/ Interrupt(b)
    PROVE  OneBuildInv'
  <1> USE DEF Goto, disk, setting
  <1>0. builds' = builds /\ site' = site
    BY DEF Begin, Command, TransferFails, Interrupt, Exhausted, TestExists, OpenOutput,
       WriteAll, MoveTmp, RemoveTmp, Checkout, CheckoutDone, RemoveClone
  <1>1. Attempts' = Attempts
    BY <1>0 DEF Attempts
  <1>2. b \in builds
    BY DEF TodoInv, Begin, Command, TransferFails, Interrupt, Exhausted, TestExists, OpenOutput,
       WriteAll, MoveTmp, RemoveTmp, Checkout, CheckoutDone, RemoveClone
  <1>3. \A c \in Build : c # b => pc[c] = "idle"
    BY <1>2 DEF TodoInv, OneBuildInv
  <1>4. SUFFICES ASSUME OnlyWget
        PROVE  /\ \A c \in Build : /\ \A i \in DOMAIN todo'[c] : todo'[c][i] = "wget"
                                   /\ pc'[c] = "write" => fd'[c] = tmp' /\ writer'[tmp'] = c
                                   /\ pc'[c] = "mv" => tmp' \in whole'
                                   /\ pc'[c] \notin {"checkout", "cloning", "rmclone"}
               /\ archive' # None => archive' \in whole' /\ archive' # tmp'
    BY <1>0, <1>1 DEF OneBuildInv, OnlyWget
  <1>5. /\ \A c \in Build : /\ \A i \in DOMAIN todo[c] : todo[c][i] = "wget"
                            /\ pc[c] = "write" => fd[c] = tmp /\ writer[tmp] = c
                            /\ pc[c] = "mv" => tmp \in whole
                            /\ pc[c] \notin {"checkout", "cloning", "rmclone"}
        /\ archive # None => archive \in whole /\ archive # tmp
    BY <1>4 DEF OneBuildInv
  <1>6. pc \in [Build -> Pc] /\ fd \in [Build -> 0 .. used] /\ todo \in [Build -> Seq(Method)]
    BY DEF TypeOK
  <1>7. ASSUME todo[b] # <<>>
        PROVE  Head(todo[b]) = "wget" /\ \A i \in DOMAIN Tail(todo[b]) : Tail(todo[b])[i] = "wget"
    <2>1. todo[b] \in Seq(Method) /\ \A i \in DOMAIN todo[b] : todo[b][i] = "wget"
      BY <1>5, <1>6
    <2> QED BY <1>7, <2>1
  <1>8. pc[b] \in Attempting => Head(todo[b]) = "wget" /\ ToTmp(b)
    BY <1>7 DEF TodoInv, ToTmp
  <1>9. "wget" \notin ScmMethod
    BY DEF ScmMethod
  <1>10. CASE Begin(b)
    BY <1>3, <1>4, <1>5, <1>6, <1>10 DEF Begin, OnlyWget
  <1>11. CASE Exhausted(b) \/ TestExists(b)
    <2>1. /\ UNCHANGED <<archive, tmp, writer, whole, todo, fd>>
          /\ pc' = [pc EXCEPT ![b] = pc'[b]] /\ pc'[b] \in {"failed", "done", "open"}
      BY <1>6, <1>7, <1>9, <1>11 DEF Exhausted, TestExists
    <2> QED BY <1>3, <1>5, <1>6, <2>1
  <1>12. CASE OpenOutput(b)
    <2>1. PICK new : /\ new = (IF tmp # None THEN tmp ELSE used + 1) /\ new \in 1 .. used'
                     /\ whole' = whole \ {new} /\ used' \in 0 .. MaxInode
                     /\ writer' = [writer EXCEPT ![new] = b]
                     /\ fd' = [fd EXCEPT ![b] = new] /\ pc' = [pc EXCEPT ![b] = "write"]
                     /\ tmp' = new /\ archive' = archive /\ todo' = todo
      <3>1. ToTmp(b)
        BY <1>8, <1>12 DEF Attempting, OpenOutput
      <3> QED BY <1>12, <3>1, OpenFacts
    <2>2. new \in Inode
      BY <2>1, DownloadAssumption DEF Inode
    <2>3. archive # None => archive # new
      <3>1. archive \in 0 .. used /\ used \in Nat
        BY DEF TypeOK
      <3> QED BY <1>5, <2>1, <3>1
    <2>4. fd'[b] = tmp' /\ writer'[tmp'] = b
      BY <1>6, <2>1, <2>2 DEF TypeOK
    <2>5. \A c \in Build : c # b => pc'[c] = "idle"
      BY <1>3, <1>6, <2>1
    <2>6. pc'[b] = "write"
      BY <1>6, <2>1
    <2> QED BY <1>5, <2>1, <2>3, <2>4, <2>5, <2>6
  <1>13. CASE WriteAll(b)
    <2>1. fd[b] = tmp /\ writer[tmp] = b /\ ToTmp(b)
      BY <1>5, <1>8, <1>13 DEF WriteAll, Attempting
    <2>2. /\ whole' = whole \cup {tmp} /\ pc' = [pc EXCEPT ![b] = "mv"]
          /\ UNCHANGED <<archive, tmp, todo>>
      BY <1>13, <2>1 DEF WriteAll
    <2>3. pc'[b] = "mv" /\ \A c \in Build : c # b => pc'[c] = "idle"
      BY <1>3, <1>6, <2>2
    <2> QED BY <1>5, <2>2, <2>3
  <1>14. CASE MoveTmp(b)
    <2>1. tmp \in whole
      BY <1>5, <1>14 DEF MoveTmp
    <2>2. tmp # None
      BY <2>1 DEF TypeOK, None
    <2>3. /\ archive' = tmp /\ tmp' = None /\ pc' = [pc EXCEPT ![b] = "done"]
          /\ UNCHANGED <<whole, todo>>
      BY <1>14, <2>2 DEF MoveTmp
    <2>4. pc'[b] = "done" /\ \A c \in Build : c # b => pc'[c] = "idle"
      BY <1>3, <1>6, <2>3
    <2> QED BY <1>5, <2>1, <2>2, <2>3, <2>4
  <1>15. CASE RemoveTmp(b)
    <2>1. /\ tmp' = None /\ pc' = [pc EXCEPT ![b] = "test"]
          /\ todo' = [todo EXCEPT ![b] = Tail(todo[b])] /\ UNCHANGED <<archive, whole>>
      BY <1>15 DEF RemoveTmp, NextSite
    <2>2. pc'[b] = "test" /\ \A c \in Build : c # b => pc'[c] = "idle" /\ todo'[c] = todo[c]
      BY <1>3, <1>6, <2>1
    <2>3. todo'[b] = Tail(todo[b]) /\ todo[b] # <<>>
      BY <1>6, <1>15, <2>1 DEF RemoveTmp, TodoInv, Attempting
    <2>4. \A c \in Build : \A i \in DOMAIN todo'[c] : todo'[c][i] = "wget"
      <3>1. ASSUME NEW c \in Build PROVE \A i \in DOMAIN todo'[c] : todo'[c][i] = "wget"
        <4>1. CASE c = b
          BY <1>7, <2>3, <4>1
        <4>2. CASE c # b
          BY <1>5, <2>2, <4>2
        <4> QED BY <4>1, <4>2
      <3> QED BY <3>1
    <2> QED BY <1>5, <2>1, <2>2, <2>4
  <1>16. CASE Checkout(b) \/ CheckoutDone(b) \/ RemoveClone(b)
    BY <1>5, <1>16 DEF Checkout, CheckoutDone, RemoveClone
  <1>17. CASE TransferFails(b)
    <2>1. ToTmp(b)
      BY <1>8, <1>17 DEF TransferFails, Attempting
    <2>2. pc' = [pc EXCEPT ![b] = "rmtmp"] /\ UNCHANGED <<archive, tmp, whole, todo>>
      BY <1>17, <2>1 DEF TransferFails
    <2>3. pc'[b] = "rmtmp" /\ \A c \in Build : c # b => pc'[c] = "idle"
      BY <1>3, <1>6, <2>2
    <2> QED BY <1>5, <2>2, <2>3
  <1>18. CASE Interrupt(b)
    <2>1. pc' = [pc EXCEPT ![b] = "idle"] /\ UNCHANGED <<archive, tmp, whole, todo>>
      BY <1>18 DEF Interrupt
    <2>2. pc'[b] = "idle" /\ \A c \in Build : c # b => pc'[c] = "idle"
      BY <1>3, <1>6, <2>1
    <2> QED BY <1>5, <2>1, <2>2
  <1> QED BY <1>10, <1>11, <1>12, <1>13, <1>14, <1>15, <1>16, <1>17, <1>18 DEF Command

(* The invariant is inductive. *)
LEMMA NextInv == IInv /\ [Next]_vars => IInv'
  <1>1. ASSUME IInv, Next PROVE IInv'
    <2>1. PICK b \in Build : Begin(b) \/ Command(b) \/ TransferFails(b) \/ Interrupt(b)
      BY <1>1 DEF Next
    <2>2. TypeOK' /\ TodoInv'
      BY <1>1, <2>1, TypeStep DEF IInv
    <2> QED BY <1>1, <2>1, <2>2, NoFaultStep, OneBuildStep DEF IInv
  <1>2. ASSUME IInv, UNCHANGED vars PROVE IInv'
    <2>1. UNCHANGED <<builds, site, archive, tmp, clone, writer, whole, used, pc, todo, fd,
                      faults>>
      BY <1>2 DEF vars, disk, setting
    <2>2. TypeOK' /\ TodoInv'
      BY <1>2, <2>1 DEF IInv, TypeOK, TodoInv
    <2>3. NoFaultInv => NoFaultInv'
      BY <2>1 DEF NoFaultInv
    <2>4. Attempts' = Attempts
      BY <2>1 DEF Attempts
    <2>5. OneBuildInv => OneBuildInv'
      BY <2>1, <2>4 DEF OneBuildInv, OnlyWget
    <2> QED BY <1>2, <2>2, <2>3, <2>5 DEF IInv
  <1> QED BY <1>1, <1>2
-----------------------------------------------------------------------------
(* The types hold for all scenarios: a build has a file open exactly while *)
(* it writes, and each file was created before.                            *)
THEOREM TypeTheorem == Spec => []TypeOK
  <1>1. Init => TypeOK /\ TodoInv
    BY InitType
  <1>2. TypeOK /\ TodoInv /\ [Next]_vars => TypeOK' /\ TodoInv'
    <2>1. ASSUME TypeOK, TodoInv, Next PROVE TypeOK' /\ TodoInv'
      BY <2>1, TypeStep DEF Next
    <2>2. ASSUME TypeOK, TodoInv, UNCHANGED vars PROVE TypeOK' /\ TodoInv'
      BY <2>2 DEF vars, disk, setting, TypeOK, TodoInv
    <2> QED BY <2>1, <2>2
  <1> QED BY <1>1, <1>2, PTL DEF Spec

(* A truncated archive is left behind only by a method that writes to it   *)
(* directly, whatever fails or is interrupted while one build runs at a    *)
(* time, and however many builds run at a time while nothing fails.        *)
THEOREM TruncatedTheorem ==
    ASSUME \A s \in Scenarios : Separate(s)
    PROVE  Spec => []TruncatedOnlyDirect
  <1>1. Init => IInv
    BY InitInv
  <1>2. IInv => TruncatedOnlyDirect
    <2> SUFFICES ASSUME IInv, archive # None, archive \notin whole,
                        \A b \in Build : pc[b] # "write"
                 PROVE  ~OnlyWget
      BY DEF TruncatedOnlyDirect, OnlyWget
    <2>1. archive \in 1 .. used
      BY DEF IInv, TypeOK, None
    <2>2. ~NoFaultInv
      BY <2>1 DEF NoFaultInv
    <2> QED BY <2>2 DEF IInv, OneBuildInv
  <1> QED BY <1>1, <1>2, NextInv, PTL DEF Spec
=============================================================================
