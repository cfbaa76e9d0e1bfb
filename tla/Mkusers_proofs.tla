----------------------------- MODULE Mkusers_proofs -----------------------------
(***************************************************************************)
(* What a run of mkusers that succeeds leaves behind, for every table and  *)
(* every target directory, any range of automatic ids and any number of    *)
(* earlier runs, complete or interrupted.                                  *)
(***************************************************************************)
EXTENDS Mkusers, WellFoundedInduction, TLAPS

(* The row at i has been dealt with by pass k of this run. *)
Past(k, i) == pass > k \/ (pass = k /\ i < line)

GroupDone(i) == \/ table[i].gid >= 0 /\ Past(1, i)
                \/ table[i].gid = Automatic /\ Past(2, i)

UserDone(i) == \/ table[i].uid >= 0 /\ Past(4, i)
               \/ table[i].uid = Automatic /\ Past(5, i)

(* Where the run is: on a row of the table, and on one of its groups. *)
PosInv ==
    /\ \A i \in DOMAIN table : table[i].uid >= Automatic
    /\ table # <<>> => line <= Len(table)
    /\ pass = 3 /\ line <= Len(table) =>
          table[line].groups = <<>> \/ sub <= Len(table[line].groups)
    /\ status = "done" => pass > 5 \/ table = <<>>

(* Users never share a uid, and nobody takes root's. *)
UidInv == Distinct(uid) /\ uid["root"] = 0

(* Groups may share a gid while a run is under way, but only one that a    *)
(* row of the table insists on.                                            *)
GidInv ==
    \A g, h \in Group : g # h /\ gid[g] # None /\ gid[g] = gid[h] =>
        \E i \in DOMAIN table : table[i].gid = gid[g]

(* A main group that its pass has seen exists. *)
GroupInv == \A i \in DOMAIN table : GroupDone(i) => gid[table[i].group] # None

(* What is so of a row for whose user add_one_user has succeeded. *)
Honoured(r) ==
    /\ r.user # "root"
    /\ r.gid # Automatic => get_group(r.gid) \subseteq {r.group} /\ gid[r.group] = r.gid
    /\ uid[r.user] \in IF r.uid = Automatic THEN Nat \ {0} ELSE {r.uid}
    /\ uid[r.user] # None /\ gid[r.group] # None
    /\ ugid[r.user] = gid[r.group]
    /\ \A g \in ToSet(r.groups) : r.user \in members[g]

UserInv ==
    status # "failed" => \A i \in DOMAIN table : UserDone(i) => Honoured(table[i])

IInv == TypeOK /\ PosInv /\ UidInv /\ GidInv /\ GroupInv /\ UserInv
--------------------------------------------------------------------------------
(* A set of ids has a least element, and Min is it. *)
LEMMA MinFacts ==
    ASSUME NEW S \in SUBSET Nat, S # {}
    PROVE  Min(S) \in S /\ \A x \in S : Min(S) <= x
  <1> DEFINE Less == {ss \in Nat \X Nat : ss[1] < ss[2]}
  <1>1. IsWellFoundedOn(Less, Nat)
    BY NatLessThanWellFounded, Zenon DEF OpToRel
  <1>2. PICK m \in S : \A y \in S : ~(<<y, m>> \in Less)
    BY <1>1, WFMin
  <1>3. ASSUME NEW y \in S PROVE m <= y
    <2>1. ~(<<y, m>> \in Less)
      BY <1>2
    <2> QED BY <2>1
  <1>4. \E x \in S : \A y \in S : x <= y
    BY <1>3
  <1> QED BY <1>4 DEF Min

(* generate_id keeps the id of a name that has one, and otherwise returns  *)
(* one above 0 that no name has, if there is one.                          *)
LEMMA GenerateFacts ==
    ASSUME NEW S, NEW ids \in [S -> Nat \cup {None}], NEW x \in S,
           NEW lo \in Nat \ {0}, NEW hi \in Nat,
           NEW n, n = generate_id(ids, x, lo, hi), n # None
    PROVE  /\ n \in Nat
           /\ ids[x] # None => n = ids[x]
           /\ ids[x] = None => n # 0 /\ \A y \in S : ids[y] # n
  <1> DEFINE free == {m \in lo .. hi : \A y \in DOMAIN ids : ids[y] # m}
  <1>1. CASE ids[x] # None
    BY <1>1 DEF generate_id
  <1>2. CASE ids[x] = None
    <2>1. n = Min(free) /\ free # {}
      BY <1>2 DEF generate_id
    <2>2. free \in SUBSET Nat
      OBVIOUS
    <2>3. n \in free
      BY <2>1, <2>2, MinFacts
    <2> QED BY <1>2, <2>3
  <1> QED BY <1>1, <1>2

(* Giving a name its old id, or one that no other name has, keeps the ids  *)
(* distinct; so does taking it away.                                       *)
LEMMA DistinctExcept ==
    ASSUME NEW S, NEW ids \in [S -> Nat \cup {None}], NEW x \in S, NEW n,
           Distinct(ids), n = None \/ \A y \in S : y # x => ids[y] # n
    PROVE  Distinct([ids EXCEPT ![x] = n])
  BY DEF Distinct

(* The five passes by number. *)
LEMMA MainFacts ==
    /\ Len(main) = 5
    /\ main[1] = "fixed_groups" /\ main[2] = "auto_groups" /\ main[3] = "more_groups"
    /\ main[4] = "fixed_users" /\ main[5] = "auto_users"
  BY DEF main

(* The order of the passes. *)
LEMMA PassFacts ==
    ASSUME NEW p \in 1 .. 5
    PROVE  /\ main[p] = "more_groups" <=> p = 3
           /\ main[p] \in GroupPass <=> p \in 1 .. 3
  <1>1. p = 1 \/ p = 2 \/ p = 3 \/ p = 4 \/ p = 5
    OBVIOUS
  <1>2. CASE p = 1
    BY <1>2, MainFacts DEF GroupPass
  <1>3. CASE p = 2
    BY <1>3, MainFacts DEF GroupPass
  <1>4. CASE p = 3
    BY <1>4, MainFacts DEF GroupPass
  <1>5. CASE p = 4
    BY <1>5, MainFacts DEF GroupPass
  <1>6. CASE p = 5
    BY <1>6, MainFacts DEF GroupPass
  <1> QED BY <1>1, <1>2, <1>3, <1>4, <1>5, <1>6

(* What a row of a table holds. *)
LEMMA RowFacts ==
    ASSUME NEW r \in Row
    PROVE  /\ r.user \in User /\ r.group \in Group /\ r.uid \in Int /\ r.gid \in Int
           /\ r.groups \in Seq(Group) /\ ToSet(r.groups) \subseteq Group
  BY DEF Row, ToSet

(* The types of the four files, taken apart. *)
LEMMA SkeletonFacts ==
    ASSUME NEW a, NEW b, NEW c, NEW d
    PROVE  [uid |-> a, ugid |-> b, gid |-> c, members |-> d] \in Skeleton
           <=> /\ a \in [User -> Nat \cup {None}] /\ b \in [User -> Nat \cup {None}]
               /\ c \in [Group -> Nat \cup {None}] /\ d \in [Group -> SUBSET User]
  BY DEF Skeleton

--------------------------------------------------------------------------------
(* The steps of main on the place in the table. *)

(* The place, by its type. *)
LEMMA PlaceFacts ==
    ASSUME TypeOK
    PROVE  /\ table \in Seq(Row) /\ pass \in 1 .. 6 /\ line \in Nat \ {0}
           /\ sub \in Nat \ {0} /\ Len(table) \in Nat
           /\ DOMAIN table = 1 .. Len(table)
           /\ \A i \in DOMAIN table : table[i] \in Row
  <1>1. table \in Seq(Row) /\ pass \in 1 .. Len(main) + 1 /\ {line, sub} \subseteq Nat \ {0}
    BY DEF TypeOK
  <1>2. pass \in 1 .. 6
    <2>1. Len(main) + 1 = 6
      BY MainFacts
    <2> QED BY <1>1, <2>1
  <1> QED BY <1>1, <1>2

(* Going on leaves the place on a row and on one of its groups, and the    *)
(* row it leaves is the only one that is newly dealt with.                 *)
LEMMA ContinueFacts ==
    ASSUME TypeOK, PosInv, AtRow, Continue
    PROVE  /\ pass' \in 1 .. 6 /\ line' \in Nat \ {0} /\ sub' \in Nat \ {0}
           /\ PosInv'
           /\ \A k \in 1 .. 5, i \in DOMAIN table :
                 Past(k, i)' => Past(k, i) \/ (pass = k /\ i = line)
  <1>1. /\ table \in Seq(Row) /\ pass \in 1 .. 5 /\ line \in Nat \ {0} /\ sub \in Nat \ {0}
        /\ line \in 1 .. Len(table) /\ Len(table) \in Nat /\ status = "running"
        /\ DOMAIN table = 1 .. Len(table) /\ table # <<>>
    BY PlaceFacts, MainFacts DEF AtRow
  <1>2. ASSUME NEW i \in DOMAIN table
        PROVE  table[i].groups \in Seq(Group) /\ Len(table[i].groups) \in Nat
               /\ (table[i].groups # <<>> => 1 <= Len(table[i].groups))
    BY <1>1, <1>2, RowFacts
  <1>3. table' = table /\ status' = status
    BY DEF Continue
  <1>4. main[pass] = "more_groups" <=> pass = 3
    BY <1>1, PassFacts
  <1> DEFINE more == main[pass] = "more_groups" /\ sub < Len(row.groups)
  <1>5. CASE more
    <2>1. sub' = sub + 1 /\ pass' = pass /\ line' = line
      BY <1>5 DEF Continue
    <2>2. pass = 3 /\ sub < Len(table[line].groups)
      BY <1>4, <1>5 DEF row
    <2>3. PosInv'
      BY <1>1, <1>2, <1>3, <2>1, <2>2 DEF PosInv
    <2> QED BY <1>1, <1>3, <2>1, <2>3 DEF Past
  <1>6. CASE ~more
    <2> PICK len : len = Len(table)
      OBVIOUS
    <2>a. len \in Nat /\ line \in 1 .. len
      BY <1>1
    <2>b. sub' = 1 /\ IF line < len THEN line' = line + 1 /\ pass' = pass
                                   ELSE line' = 1 /\ pass' = pass + 1
      BY <1>6 DEF Continue
    <2>1. /\ sub' = 1
          /\ \/ line < len /\ line' = line + 1 /\ pass' = pass
             \/ line = len /\ line' = 1 /\ pass' = pass + 1
      BY <2>a, <2>b
    <2>2. pass' \in 1 .. 6 /\ line' \in 1 .. len /\ sub' \in Nat \ {0}
      BY <1>1, <2>a, <2>1
    <2>3. table[line'].groups = <<>> \/ 1 <= Len(table[line'].groups)
      BY <1>1, <1>2, <2>2
    <2>4. PosInv'
      BY <1>1, <1>3, <2>b, <2>2, <2>3 DEF PosInv
    <2>5. ASSUME NEW k \in 1 .. 5, NEW i \in DOMAIN table, Past(k, i)'
          PROVE  Past(k, i) \/ (pass = k /\ i = line)
      BY <1>1, <2>a, <2>1, <2>5 DEF Past
    <2> QED BY <2>2, <2>4, <2>5
  <1> QED BY <1>5, <1>6

(* Which rows a pass skips. *)
LEMMA SkipFacts ==
    ASSUME TypeOK, AtRow
    PROVE  /\ pass = 1 => (Skipped <=> row.gid < 0)
           /\ pass = 2 => (Skipped <=> row.gid # Automatic)
           /\ pass = 3 => (Skipped <=> row.groups = <<>>)
           /\ pass = 4 => (Skipped <=> row.uid < 0)
           /\ pass = 5 => (Skipped <=> row.uid # Automatic)
           /\ pass \in 1 .. 5 /\ line \in DOMAIN table /\ row \in Row
           /\ GroupCall <=> pass \in 1 .. 3 /\ ~Skipped
           /\ UserCall <=> pass \in 4 .. 5 /\ ~Skipped
  <1>1. pass \in 1 .. 5 /\ line \in DOMAIN table /\ row \in Row
    BY PlaceFacts, MainFacts DEF AtRow, row
  <1>2. main[pass] \in GroupPass <=> pass \in 1 .. 3
    BY <1>1, PassFacts
  <1>3. /\ GroupCall <=> pass \in 1 .. 3 /\ ~Skipped
        /\ UserCall <=> pass \in 4 .. 5 /\ ~Skipped
    BY <1>1, <1>2 DEF GroupCall, UserCall
  <1>4. CASE pass = 1
    BY <1>1, <1>3, <1>4, MainFacts DEF Skipped
  <1>5. CASE pass = 2
    BY <1>1, <1>3, <1>5, MainFacts DEF Skipped
  <1>6. CASE pass = 3
    BY <1>1, <1>3, <1>6, MainFacts DEF Skipped
  <1>7. CASE pass = 4
    BY <1>1, <1>3, <1>7, MainFacts DEF Skipped
  <1>8. CASE pass = 5
    BY <1>1, <1>3, <1>8, MainFacts DEF Skipped
  <1> QED BY <1>1, <1>4, <1>5, <1>6, <1>7, <1>8

(* Only the row that is left can be newly done, and only in its own pass. *)
LEMMA DoneFacts ==
    ASSUME TypeOK, PosInv, AtRow, Continue, NEW i \in DOMAIN table
    PROVE  /\ GroupDone(i)' => \/ GroupDone(i)
                               \/ i = line /\ pass = 1 /\ table[i].gid >= 0
                               \/ i = line /\ pass = 2 /\ table[i].gid = Automatic
           /\ UserDone(i)' => \/ UserDone(i)
                              \/ i = line /\ pass = 4 /\ table[i].uid >= 0
                              \/ i = line /\ pass = 5 /\ table[i].uid = Automatic
  <1>1. table' = table
    BY DEF Continue
  <1>2. \A k \in 1 .. 5 : Past(k, i)' => Past(k, i) \/ (pass = k /\ i = line)
    BY ContinueFacts
  <1>3. /\ Past(1, i)' => Past(1, i) \/ (pass = 1 /\ i = line)
        /\ Past(2, i)' => Past(2, i) \/ (pass = 2 /\ i = line)
        /\ Past(4, i)' => Past(4, i) \/ (pass = 4 /\ i = line)
        /\ Past(5, i)' => Past(5, i) \/ (pass = 5 /\ i = line)
    BY <1>2
  <1>4. GroupDone(i)' => \/ table[i].gid >= 0 /\ Past(1, i)'
                         \/ table[i].gid = Automatic /\ Past(2, i)'
    BY <1>1 DEF GroupDone
  <1>5. UserDone(i)' => \/ table[i].uid >= 0 /\ Past(4, i)'
                        \/ table[i].uid = Automatic /\ Past(5, i)'
    BY <1>1 DEF UserDone
  <1> QED BY <1>3, <1>4, <1>5, Zenon DEF GroupDone, UserDone

(* The type of the state after a step that goes on. *)
LEMMA ContinueType ==
    ASSUME TypeOK, PosInv, AtRow, Continue,
           uid' \in [User -> Nat \cup {None}], ugid' \in [User -> Nat \cup {None}],
           gid' \in [Group -> Nat \cup {None}], members' \in [Group -> SUBSET User]
    PROVE  TypeOK'
  <1>1. pass' \in 1 .. 6 /\ {line', sub'} \subseteq Nat \ {0}
    BY ContinueFacts
  <1>2. pass' \in 1 .. Len(main) + 1
    BY <1>1, MainFacts
  <1>3. table' = table /\ status' = status /\ runs' = runs /\ cuts' = cuts
    BY DEF Continue
  <1>4. [uid |-> uid', ugid |-> ugid', gid |-> gid', members |-> members'] \in Skeleton
    BY SkeletonFacts
  <1> QED BY <1>1, <1>2, <1>3, <1>4, Zenon DEF TypeOK

(* The types of the files. *)
LEMMA FileFacts ==
    ASSUME TypeOK
    PROVE  /\ uid \in [User -> Nat \cup {None}] /\ ugid \in [User -> Nat \cup {None}]
           /\ gid \in [Group -> Nat \cup {None}] /\ members \in [Group -> SUBSET User]
  <1>1. [uid |-> uid, ugid |-> ugid, gid |-> gid, members |-> members] \in Skeleton
    BY DEF TypeOK
  <1> QED BY <1>1, SkeletonFacts
--------------------------------------------------------------------------------
(* The actions. *)

(* A row that is skipped leaves the files alone and is not done by it. *)
LEMMA SkipStep == IInv /\ Skip => IInv'
  <1> SUFFICES ASSUME IInv, Skip PROVE IInv'
    OBVIOUS
  <1>1. TypeOK /\ PosInv /\ AtRow /\ Skipped /\ Continue
    BY DEF IInv, Skip
  <1>2. uid' = uid /\ ugid' = ugid /\ gid' = gid /\ members' = members
    BY DEF Skip, files
  <1>3. table' = table /\ status' = status
    BY <1>1 DEF Continue
  <1>4. TypeOK'
    BY <1>1, <1>2, ContinueType, FileFacts
  <1>5. PosInv'
    BY <1>1, ContinueFacts
  <1>6. UidInv' /\ GidInv'
    BY <1>2, <1>3 DEF IInv, UidInv, GidInv
  <1>7. /\ pass = 1 => table[line].gid < 0
        /\ pass = 2 => table[line].gid # Automatic
        /\ pass = 4 => table[line].uid < 0
        /\ pass = 5 => table[line].uid # Automatic
    BY <1>1, SkipFacts DEF row
  <1>8. ASSUME NEW i \in DOMAIN table
        PROVE  (GroupDone(i)' => GroupDone(i)) /\ (UserDone(i)' => UserDone(i))
    <2>1. table[i].gid \in Int /\ table[i].uid \in Int
      BY <1>1, PlaceFacts, RowFacts
    <2>2. /\ ~(i = line /\ pass = 1 /\ table[i].gid >= 0)
          /\ ~(i = line /\ pass = 2 /\ table[i].gid = Automatic)
          /\ ~(i = line /\ pass = 4 /\ table[i].uid >= 0)
          /\ ~(i = line /\ pass = 5 /\ table[i].uid = Automatic)
      BY <1>7, <2>1
    <2> QED BY <1>1, <2>2, DoneFacts
  <1>9. GroupInv'
    BY <1>2, <1>3, <1>8 DEF IInv, GroupInv
  <1>10. UserInv'
    BY <1>2, <1>3, <1>8 DEF IInv, UserInv, Honoured, get_group
  <1> QED BY <1>4, <1>5, <1>6, <1>9, <1>10 DEF IInv

(* The arguments of add_one_group: a group, and a gid to choose or one     *)
(* that a row of the table asks for.                                       *)
LEMMA GroupArgs ==
    ASSUME TypeOK, PosInv, GroupCall
    PROVE  /\ AtRow /\ pass \in 1 .. 3 /\ line \in DOMAIN table
           /\ Name \in Group
           /\ Wanted = Automatic \/ (Wanted \in Nat /\ table[line].gid = Wanted)
           /\ pass # 3 => Name = table[line].group
  <1>1. AtRow
    BY DEF GroupCall
  <1>2. pass \in 1 .. 3 /\ ~Skipped /\ line \in DOMAIN table /\ row \in Row
    BY <1>1, SkipFacts
  <1>3. row = table[line]
    BY DEF row
  <1>4. main[pass] = "more_groups" <=> pass = 3
    BY <1>2, PassFacts
  <1>5. CASE pass = 3
    <2>1. row.groups # <<>> /\ row.groups \in Seq(Group)
      BY <1>1, <1>2, <1>5, SkipFacts, RowFacts
    <2>2. sub \in 1 .. Len(row.groups)
      BY <1>1, <1>3, <1>5, <2>1, PlaceFacts DEF PosInv, AtRow
    <2>3. row.groups[sub] \in Group
      BY <2>1, <2>2
    <2> QED BY <1>1, <1>2, <1>4, <1>5, <2>3 DEF Name, Wanted
  <1>6. CASE pass # 3
    <2>1. row.gid \in Int /\ row.group \in Group
      BY <1>2, RowFacts
    <2>2. Name = row.group /\ Wanted = row.gid
      BY <1>4, <1>6 DEF Name, Wanted
    <2>3. pass = 1 => row.gid \in Nat
      BY <1>1, <1>2, <2>1, SkipFacts
    <2>4. pass = 2 => row.gid = Automatic
      BY <1>1, <1>2, SkipFacts
    <2>5. pass = 1 \/ pass = 2
      BY <1>2, <1>6
    <2> QED BY <1>1, <1>2, <1>3, <2>1, <2>2, <2>3, <2>4, <2>5
  <1> QED BY <1>5, <1>6

(* A failure leaves the place where it is, and nothing more is claimed of  *)
(* the rows' users.                                                        *)
LEMMA FailStep ==
    ASSUME IInv, Fail, TypeOK', UidInv', gid' = gid
    PROVE  IInv'
  <1>1. table' = table /\ pass' = pass /\ line' = line /\ sub' = sub /\ status' = "failed"
    BY DEF Fail, place
  <1>2. PosInv'
    BY <1>1 DEF IInv, PosInv
  <1>3. GidInv' /\ GroupInv'
    BY <1>1 DEF IInv, GidInv, GroupInv, GroupDone, Past
  <1>4. UserInv'
    BY <1>1 DEF UserInv
  <1> QED BY <1>2, <1>3, <1>4 DEF IInv

(* The type of the state after a failure. *)
LEMMA FailType ==
    ASSUME TypeOK, Fail,
           uid' \in [User -> Nat \cup {None}], ugid' \in [User -> Nat \cup {None}],
           gid' = gid, members' = members
    PROVE  TypeOK'
  <1>1. /\ table' = table /\ pass' = pass /\ line' = line /\ sub' = sub
        /\ status' = "failed" /\ runs' = runs /\ cuts' = cuts
    BY DEF Fail, place
  <1>2. [uid |-> uid', ugid |-> ugid', gid |-> gid', members |-> members'] \in Skeleton
    BY SkeletonFacts, FileFacts
  <1> QED BY <1>1, <1>2, Zenon DEF TypeOK

(* A group gets the gid it had, one that no group has, or the one its row  *)
(* insists on; no user of this run has been added yet.                     *)
LEMMA GroupStep == IInv /\ add_one_group => IInv'
  <1> SUFFICES ASSUME IInv, add_one_group PROVE IInv'
    OBVIOUS
  <1>1. TypeOK /\ PosInv /\ GroupCall
    BY DEF IInv, add_one_group
  <1>2. /\ uid \in [User -> Nat \cup {None}] /\ ugid \in [User -> Nat \cup {None}]
        /\ gid \in [Group -> Nat \cup {None}] /\ members \in [Group -> SUBSET User]
    BY <1>1, FileFacts
  <1>3. PICK g : g = Name
    OBVIOUS
  <1>4. PICK n : n = IF Wanted = Automatic THEN generate_gid(g) ELSE Wanted
    OBVIOUS
  <1>5. /\ AtRow /\ pass \in 1 .. 3 /\ line \in DOMAIN table /\ g \in Group
        /\ Wanted = Automatic \/ (Wanted \in Nat /\ table[line].gid = Wanted)
        /\ pass # 3 => g = table[line].group
    BY <1>1, <1>3, GroupArgs
  <1>6. CASE n = None /\ Fail /\ UNCHANGED files
    <2>1. uid' = uid /\ ugid' = ugid /\ gid' = gid /\ members' = members
      BY <1>6 DEF files
    <2>2. TypeOK'
      BY <1>1, <1>2, <1>6, <2>1, FailType
    <2>3. UidInv'
      BY <2>1 DEF IInv, UidInv
    <2> QED BY <1>6, <2>1, <2>2, <2>3, FailStep
  <1>7. CASE /\ n # None /\ Continue
             /\ gid' = [gid EXCEPT ![g] = n] /\ members' = [members EXCEPT ![g] = {}]
             /\ UNCHANGED <<uid, ugid>>
    <2>1. Wanted = Automatic =>
             /\ n \in Nat
             /\ gid[g] # None => n = gid[g]
             /\ gid[g] = None => \A h \in Group : gid[h] # n
      <3>1. MIN_GID \in Nat \ {0} /\ MAX_GID \in Nat
        BY MkusersAssumption
      <3> SUFFICES ASSUME Wanted = Automatic
                   PROVE  /\ n \in Nat
                          /\ gid[g] # None => n = gid[g]
                          /\ gid[g] = None => \A h \in Group : gid[h] # n
        OBVIOUS
      <3>2. n = generate_id(gid, g, MIN_GID, MAX_GID)
        BY <1>4 DEF generate_gid
      <3> QED BY <1>2, <1>5, <1>7, <3>1, <3>2, GenerateFacts
    <2>2. Wanted # Automatic => n \in Nat /\ table[line].gid = n
      BY <1>4, <1>5
    <2>3. n \in Nat
      BY <2>1, <2>2
    <2>4. gid' \in [Group -> Nat \cup {None}] /\ members' \in [Group -> SUBSET User]
      BY <1>2, <1>5, <1>7, <2>3
    <2>5. /\ gid'[g] = n /\ \A h \in Group : h # g => gid'[h] = gid[h]
      BY <1>2, <1>5, <1>7
    <2>6. TypeOK' /\ PosInv'
      BY <1>1, <1>2, <1>5, <1>7, <2>4, ContinueType, ContinueFacts
    <2>7. table' = table /\ status' = status /\ uid' = uid
      BY <1>7 DEF Continue
    <2>8. UidInv'
      BY <2>7 DEF IInv, UidInv
    <2>9. GidInv'
      <3> SUFFICES ASSUME NEW x \in Group, NEW y \in Group,
                          x # y, gid'[x] # None, gid'[x] = gid'[y]
                   PROVE  \E i \in DOMAIN table : table[i].gid = gid'[x]
        BY <2>7 DEF GidInv
      <3>1. CASE Wanted # Automatic /\ (x = g \/ y = g)
        BY <1>5, <2>2, <2>5, <3>1
      <3>2. CASE x # g /\ y # g
        BY <2>5, <3>2 DEF IInv, GidInv
      <3>3. CASE Wanted = Automatic /\ gid[g] # None
        BY <2>1, <2>5, <3>3 DEF IInv, GidInv
      <3>4. CASE Wanted = Automatic /\ gid[g] = None /\ (x = g \/ y = g)
        BY <2>1, <2>5, <3>4
      <3> QED BY <3>1, <3>2, <3>3, <3>4
    <2>10. GroupInv'
      <3> SUFFICES ASSUME NEW i \in DOMAIN table, GroupDone(i)'
                   PROVE  gid'[table[i].group] # None
        BY <2>7 DEF GroupInv
      <3>1. table[i].group \in Group
        BY <1>1, PlaceFacts, RowFacts
      <3>2. n # None
        BY <1>7
      <3>3. CASE GroupDone(i)
        BY <2>5, <3>1, <3>2, <3>3 DEF IInv, GroupInv
      <3>4. CASE i = line /\ pass # 3
        BY <1>5, <2>5, <3>2, <3>4
      <3> QED BY <1>1, <1>5, <1>7, <3>3, <3>4, DoneFacts
    <2>11. UserInv'
      <3>1. ASSUME NEW i \in DOMAIN table PROVE ~UserDone(i)'
        <4>1. ~UserDone(i)
          BY <1>5 DEF UserDone, Past
        <4>2. pass # 4 /\ pass # 5
          BY <1>5
        <4> QED BY <1>1, <1>5, <1>7, <4>1, <4>2, DoneFacts
      <3> QED BY <2>7, <3>1 DEF UserInv
    <2> QED BY <2>6, <2>8, <2>9, <2>10, <2>11 DEF IInv
  <1>8. \/ n = None /\ Fail /\ UNCHANGED files
        \/ /\ n # None /\ Continue
           /\ gid' = [gid EXCEPT ![g] = n] /\ members' = [members EXCEPT ![g] = {}]
           /\ UNCHANGED <<uid, ugid>>
    BY <1>3, <1>4, Zenon DEF add_one_group
  <1> QED BY <1>6, <1>7, <1>8

(* What the checks and generate_uid make of a row's user: the uid is a     *)
(* number above 0 that is the user's already or nobody's.                  *)
LEMMA UserId ==
    ASSUME TypeOK, UidInv, NEW r \in Row, check_user_validity(r), NEW n, n # None,
           n = IF r.uid = Automatic THEN generate_uid(r.user) ELSE r.uid
    PROVE  /\ n \in Nat \ {0}
           /\ uid[r.user] # None => n = uid[r.user]
           /\ \A u \in User : u # r.user => uid[u] # n
           /\ r.uid # Automatic => n = r.uid
  <1>1. /\ uid \in [User -> Nat \cup {None}] /\ r.user \in User /\ r.uid \in Int
        /\ "root" \in User /\ MIN_UID \in Nat \ {0} /\ MAX_UID \in Nat
    BY FileFacts, RowFacts, MkusersAssumption
  <1>2. r.user # "root" /\ uid["root"] = 0
    BY DEF check_user_validity, UidInv
  <1>3. CASE r.uid = Automatic
    <2>1. n = generate_id(uid, r.user, MIN_UID, MAX_UID)
      BY <1>3 DEF generate_uid
    <2>2. /\ n \in Nat
          /\ uid[r.user] # None => n = uid[r.user]
          /\ uid[r.user] = None => n # 0 /\ \A y \in User : uid[y] # n
      BY <1>1, <2>1, GenerateFacts
    <2>3. CASE uid[r.user] # None
      <3>1. \A u \in User : u # r.user => uid[u] # uid[r.user]
        BY <1>1, <2>3 DEF UidInv, Distinct
      <3> QED BY <1>1, <1>2, <1>3, <2>2, <2>3, <3>1
    <2>4. CASE uid[r.user] = None
      BY <1>3, <2>2, <2>4
    <2> QED BY <2>3, <2>4
  <1>4. CASE r.uid # Automatic
    <2>1. /\ n = r.uid /\ r.uid >= Automatic /\ r.uid # 0
          /\ get_username(r.uid) \subseteq {r.user} /\ uid[r.user] \in {None, r.uid}
      BY <1>4 DEF check_user_validity
    <2>2. \A u \in User : uid[u] = n => u = r.user
      BY <2>1 DEF get_username
    <2>3. n \in Nat \ {0}
      BY <1>1, <1>4, <2>1 DEF Automatic
    <2> QED BY <2>1, <2>2, <2>3
  <1> QED BY <1>3, <1>4

(* The row of a call of add_one_user, whose main group exists by then if   *)
(* the row's gid is one at all.                                            *)
LEMMA UserArgs ==
    ASSUME IInv, UserCall
    PROVE  /\ AtRow /\ pass \in 4 .. 5 /\ line \in DOMAIN table
           /\ row \in Row /\ row = table[line]
           /\ row.gid >= Automatic => gid[row.group] # None
  <1>1. AtRow /\ TypeOK
    BY DEF UserCall, IInv
  <1>2. pass \in 4 .. 5 /\ line \in DOMAIN table /\ row \in Row
    BY <1>1, SkipFacts
  <1>3. row = table[line]
    BY DEF row
  <1>4. ASSUME row.gid >= Automatic PROVE gid[row.group] # None
    <2>1. table[line].gid >= 0 \/ table[line].gid = Automatic
      BY <1>2, <1>3, <1>4, RowFacts DEF Automatic
    <2>2. Past(1, line) /\ Past(2, line)
      BY <1>2 DEF Past
    <2>3. GroupDone(line)
      BY <2>1, <2>2 DEF GroupDone
    <2> QED BY <1>2, <1>3, <2>3 DEF IInv, GroupInv
  <1> QED BY <1>1, <1>2, <1>3, <1>4

(* Removing a user leaves the uids distinct, and is not done to root. *)
LEMMA RemoveUser ==
    ASSUME TypeOK, UidInv, NEW u \in User, u # "root", uid' = [uid EXCEPT ![u] = None]
    PROVE  UidInv' /\ uid' \in [User -> Nat \cup {None}]
  <1>1. uid \in [User -> Nat \cup {None}] /\ "root" \in User
    BY FileFacts, MkusersAssumption
  <1>2. Distinct([uid EXCEPT ![u] = None])
    BY <1>1, DistinctExcept DEF UidInv
  <1> QED BY <1>1, <1>2 DEF UidInv

(* A user that is added gets what its row asks for and takes nothing from  *)
(* a user whose row has been dealt with.                                   *)
LEMMA UserStep == IInv /\ add_one_user => IInv'
  <1> SUFFICES ASSUME IInv, add_one_user PROVE IInv'
    OBVIOUS
  <1>1. TypeOK /\ PosInv /\ UidInv /\ UserCall
    BY DEF IInv, add_one_user
  <1>2. /\ uid \in [User -> Nat \cup {None}] /\ ugid \in [User -> Nat \cup {None}]
        /\ gid \in [Group -> Nat \cup {None}] /\ members \in [Group -> SUBSET User]
    BY <1>1, FileFacts
  <1>3. PICK r : r = row
    OBVIOUS
  <1>4. PICK n : n = IF r.uid = Automatic THEN generate_uid(r.user) ELSE r.uid
    OBVIOUS
  <1>5. /\ AtRow /\ pass \in 4 .. 5 /\ line \in DOMAIN table
        /\ r \in Row /\ r = table[line]
        /\ r.gid >= Automatic => gid[r.group] # None
    BY <1>1, <1>3, UserArgs
  <1>6. /\ r.user \in User /\ r.group \in Group /\ r.uid \in Int /\ r.gid \in Int
        /\ ToSet(r.groups) \subseteq Group
    BY <1>5, RowFacts
  <1>7. CASE Fail /\ UNCHANGED files
    <2>1. uid' = uid /\ ugid' = ugid /\ gid' = gid /\ members' = members
      BY <1>7 DEF files
    <2>2. TypeOK'
      BY <1>1, <1>2, <1>7, <2>1, FailType
    <2>3. UidInv'
      BY <1>1, <2>1 DEF UidInv
    <2> QED BY <1>7, <2>1, <2>2, <2>3, FailStep
  <1>8. CASE /\ check_user_validity(r) /\ Fail
             /\ uid' = [uid EXCEPT ![r.user] = None]
             /\ ugid' = [ugid EXCEPT ![r.user] = None]
             /\ UNCHANGED <<gid, members>>
    <2>1. r.user # "root"
      BY <1>8 DEF check_user_validity
    <2>2. UidInv' /\ uid' \in [User -> Nat \cup {None}]
      BY <1>1, <1>6, <1>8, <2>1, RemoveUser
    <2>3. ugid' \in [User -> Nat \cup {None}] /\ gid' = gid /\ members' = members
      BY <1>2, <1>6, <1>8
    <2>4. TypeOK'
      BY <1>1, <1>8, <2>2, <2>3, FailType
    <2> QED BY <1>8, <2>2, <2>3, <2>4, FailStep
  <1>9. CASE /\ check_user_validity(r) /\ n # None /\ Continue
             /\ uid' = [uid EXCEPT ![r.user] = n]
             /\ ugid' = [ugid EXCEPT ![r.user] = gid[r.group]]
             /\ members' = [g \in Group |-> IF g \in ToSet(r.groups)
                                            THEN members[g] \cup {r.user}
                                            ELSE members[g]]
             /\ gid' = gid
    <2>1. /\ n \in Nat \ {0}
          /\ uid[r.user] # None => n = uid[r.user]
          /\ \A u \in User : u # r.user => uid[u] # n
          /\ r.uid # Automatic => n = r.uid
      BY <1>1, <1>4, <1>5, <1>9, UserId
    <2>2. /\ r.user # "root" /\ r.gid >= Automatic
          /\ r.gid # Automatic => /\ get_group(r.gid) \subseteq {r.group}
                                  /\ gid[r.group] \in {None, r.gid}
          /\ ugid[r.user] # None => get_group(ugid[r.user]) \subseteq {r.group}
      BY <1>9 DEF check_user_validity
    <2>3. gid[r.group] # None /\ gid[r.group] \in Nat
      BY <1>2, <1>5, <1>6, <2>2
    <2>4. /\ uid' \in [User -> Nat \cup {None}] /\ ugid' \in [User -> Nat \cup {None}]
          /\ uid'[r.user] = n /\ \A u \in User : u # r.user => uid'[u] = uid[u]
          /\ ugid'[r.user] = gid[r.group]
          /\ \A u \in User : u # r.user => ugid'[u] = ugid[u]
      BY <1>2, <1>6, <1>9, <2>1, <2>3
    <2>5. /\ members' \in [Group -> SUBSET User]
          /\ \A g \in Group : members[g] \subseteq members'[g]
          /\ \A g \in ToSet(r.groups) : r.user \in members'[g]
      BY <1>2, <1>6, <1>9
    <2>6. TypeOK' /\ PosInv'
      BY <1>1, <1>2, <1>5, <1>9, <2>4, <2>5, ContinueType, ContinueFacts
    <2>7. table' = table /\ status' = status /\ gid' = gid
      BY <1>9 DEF Continue
    <2>8. UidInv'
      <3>1. Distinct([uid EXCEPT ![r.user] = n])
        BY <1>1, <1>2, <1>6, <2>1, DistinctExcept DEF UidInv
      <3>2. uid'["root"] = uid["root"]
        BY <2>2, <2>4, MkusersAssumption
      <3> QED BY <1>1, <1>9, <3>1, <3>2 DEF UidInv
    <2>9. GidInv'
      BY <2>7 DEF IInv, GidInv
    <2>10. GroupInv'
      <3>1. ASSUME NEW i \in DOMAIN table PROVE GroupDone(i)' => GroupDone(i)
        <4>1. pass # 1 /\ pass # 2
          BY <1>5
        <4> QED BY <1>1, <1>5, <1>9, <4>1, DoneFacts
      <3> QED BY <2>7, <3>1 DEF IInv, GroupInv
    <2>11. Honoured(r)'
      <3>1. uid'[r.user] \in IF r.uid = Automatic THEN Nat \ {0} ELSE {r.uid}
        BY <2>1, <2>4
      <3>2. r.gid # Automatic =>
               get_group(r.gid)' \subseteq {r.group} /\ gid'[r.group] = r.gid
        BY <2>2, <2>3, <2>7 DEF get_group
      <3> QED BY <1>9, <2>2, <2>3, <2>4, <2>5, <2>7, <3>1, <3>2 DEF Honoured
    <2>12. ASSUME NEW s \in Row, Honoured(s) PROVE Honoured(s)'
      <3>1. s.user \in User /\ s.group \in Group /\ ToSet(s.groups) \subseteq Group
        BY RowFacts
      <3>2. \A g \in ToSet(s.groups) : s.user \in members'[g]
        BY <2>5, <2>12, <3>1 DEF Honoured
      <3>3. uid'[s.user] = uid[s.user]
        <4>1. CASE s.user # r.user
          BY <2>4, <3>1, <4>1
        <4>2. CASE s.user = r.user
          <5>1. uid[s.user] # None
            BY <2>12 DEF Honoured
          <5> QED BY <2>1, <2>4, <4>2, <5>1
        <4> QED BY <4>1, <4>2
      <3>4. ugid'[s.user] = ugid[s.user]
        <4>1. CASE s.user # r.user
          BY <2>4, <3>1, <4>1
        <4>2. CASE s.user = r.user
          <5>1. ugid[s.user] = gid[s.group] /\ gid[s.group] # None
            BY <2>12 DEF Honoured
          <5>2. s.group \in get_group(ugid[r.user])
            BY <3>1, <4>2, <5>1 DEF get_group
          <5>3. s.group = r.group
            BY <2>2, <4>2, <5>1, <5>2
          <5> QED BY <2>4, <4>2, <5>1, <5>3
        <4> QED BY <4>1, <4>2
      <3>5. get_group(s.gid)' = get_group(s.gid)
        BY <2>7 DEF get_group
      <3> QED BY <2>7, <2>12, <3>2, <3>3, <3>4, <3>5 DEF Honoured
    <2>13. UserInv'
      <3> SUFFICES ASSUME status' # "failed", NEW i \in DOMAIN table, UserDone(i)'
                   PROVE  Honoured(table[i])'
        BY <2>7 DEF UserInv
      <3>1. CASE UserDone(i)
        <4>1. Honoured(table[i]) /\ table[i] \in Row
          BY <1>1, <2>7, <3>1, PlaceFacts DEF IInv, UserInv
        <4>2. PICK s : s = table[i]
          OBVIOUS
        <4>3. Honoured(s)'
          BY <2>12, <4>1, <4>2
        <4> QED BY <2>7, <4>2, <4>3
      <3>2. CASE i = line
        BY <1>5, <2>7, <2>11, <3>2
      <3> QED BY <1>1, <1>5, <1>9, <3>1, <3>2, DoneFacts
    <2> QED BY <2>6, <2>8, <2>9, <2>10, <2>13 DEF IInv
  <1>10. \/ Fail /\ UNCHANGED files
         \/ /\ check_user_validity(r) /\ Fail
            /\ uid' = [uid EXCEPT ![r.user] = None]
            /\ ugid' = [ugid EXCEPT ![r.user] = None]
            /\ UNCHANGED <<gid, members>>
         \/ /\ check_user_validity(r) /\ n # None /\ Continue
            /\ uid' = [uid EXCEPT ![r.user] = n]
            /\ ugid' = [ugid EXCEPT ![r.user] = gid[r.group]]
            /\ members' = [g \in Group |-> IF g \in ToSet(r.groups)
                                           THEN members[g] \cup {r.user}
                                           ELSE members[g]]
            /\ gid' = gid
    BY <1>3, <1>4, Zenon DEF add_one_user
  <1> QED BY <1>7, <1>8, <1>9, <1>10

(* A run that ends has dealt with every row, or there is none. *)
LEMMA FinishStep == IInv /\ Finish => IInv'
  <1> SUFFICES ASSUME IInv, Finish PROVE IInv'
    OBVIOUS
  <1>1. /\ uid' = uid /\ ugid' = ugid /\ gid' = gid /\ members' = members
        /\ table' = table /\ pass' = pass /\ line' = line /\ sub' = sub
        /\ runs' = runs /\ cuts' = 0 /\ status = "running" /\ status' = "done"
        /\ pass > Len(main) \/ table = <<>>
    BY DEF Finish, files, place
  <1>2. pass > 5 \/ table = <<>>
    BY <1>1, MainFacts
  <1>3. TypeOK'
    BY <1>1, Zenon DEF IInv, TypeOK
  <1>4. PosInv'
    BY <1>1, <1>2 DEF IInv, PosInv
  <1>5. UidInv' /\ GidInv'
    BY <1>1 DEF IInv, UidInv, GidInv
  <1>6. GroupInv'
    BY <1>1 DEF IInv, GroupInv, GroupDone, Past
  <1>7. UserInv'
    BY <1>1 DEF IInv, UserInv, UserDone, Past, Honoured, get_group
  <1> QED BY <1>3, <1>4, <1>5, <1>6, <1>7 DEF IInv

(* At the start of a run no row has been dealt with. *)
LEMMA AgainStep ==
    ASSUME IInv, Again, cuts' \in Nat, UidInv', GidInv',
           uid' \in [User -> Nat \cup {None}], ugid' \in [User -> Nat \cup {None}],
           gid' \in [Group -> Nat \cup {None}], members' \in [Group -> SUBSET User]
    PROVE  IInv'
  <1>1. /\ table' = table /\ pass' = 1 /\ line' = 1 /\ sub' = 1
        /\ runs < MaxRuns /\ runs' = runs + 1 /\ status' = "running"
    BY DEF Again
  <1>2. TypeOK'
    <2>1. [uid |-> uid', ugid |-> ugid', gid |-> gid', members |-> members'] \in Skeleton
      BY SkeletonFacts
    <2>2. runs' \in 1 .. MaxRuns /\ table' \in Seq(Row)
      BY <1>1, MkusersAssumption DEF IInv, TypeOK
    <2>3. pass' \in 1 .. Len(main) + 1 /\ {line', sub'} \subseteq Nat \ {0}
      BY <1>1, MainFacts
    <2> QED BY <1>1, <2>1, <2>2, <2>3, Zenon DEF TypeOK
  <1>3. PosInv'
    <2>1. table # <<>> => 1 <= Len(table)
      BY PlaceFacts DEF IInv
    <2> QED BY <1>1, <2>1 DEF IInv, PosInv
  <1>4. ASSUME NEW i \in DOMAIN table PROVE ~GroupDone(i)' /\ ~UserDone(i)'
    <2>1. i \in Nat \ {0}
      BY PlaceFacts DEF IInv
    <2> QED BY <1>1, <2>1 DEF GroupDone, UserDone, Past
  <1>5. GroupInv' /\ UserInv'
    BY <1>1, <1>4 DEF GroupInv, UserInv
  <1> QED BY <1>2, <1>3, <1>5 DEF IInv

(* A new run has dealt with no row yet. *)
LEMMA RerunStep == IInv /\ Rerun => IInv'
  <1> SUFFICES ASSUME IInv, Rerun PROVE IInv'
    OBVIOUS
  <1>1. /\ uid' = uid /\ ugid' = ugid /\ gid' = gid /\ members' = members
        /\ cuts' = cuts /\ table' = table /\ Again
    BY DEF Rerun, Again, files
  <1>2. UidInv' /\ GidInv'
    BY <1>1 DEF IInv, UidInv, GidInv
  <1>3. cuts' \in Nat
    BY <1>1 DEF IInv, TypeOK
  <1> QED BY <1>1, <1>2, <1>3, AgainStep, FileFacts DEF IInv

(* The entry that an interruption finds removed is not root's, and its id  *)
(* is then nobody's.                                                       *)
LEMMA InterruptedStep == IInv /\ Interrupted => IInv'
  <1> SUFFICES ASSUME IInv, Interrupted PROVE IInv'
    OBVIOUS
  <1>1. TypeOK /\ PosInv /\ UidInv /\ Again /\ cuts' = cuts + 1 /\ table' = table
    BY DEF IInv, Interrupted, Again
  <1>2. cuts' \in Nat
    BY <1>1 DEF TypeOK
  <1>3. /\ uid \in [User -> Nat \cup {None}] /\ ugid \in [User -> Nat \cup {None}]
        /\ gid \in [Group -> Nat \cup {None}] /\ members \in [Group -> SUBSET User]
    BY <1>1, FileFacts
  <1>4. CASE UNCHANGED files
    <2>1. uid' = uid /\ ugid' = ugid /\ gid' = gid /\ members' = members
      BY <1>4 DEF files
    <2>2. UidInv' /\ GidInv'
      BY <1>1, <2>1 DEF IInv, UidInv, GidInv
    <2> QED BY <1>1, <1>2, <1>3, <2>1, <2>2, AgainStep
  <1>5. CASE /\ GroupCall
             /\ gid' = [gid EXCEPT ![Name] = None]
             /\ members' = [members EXCEPT ![Name] = {}]
             /\ UNCHANGED <<uid, ugid>>
    <2>1. PICK g : g = Name
      OBVIOUS
    <2>2. g \in Group
      BY <1>1, <1>5, <2>1, GroupArgs
    <2>3. gid' = [gid EXCEPT ![g] = None] /\ members' = [members EXCEPT ![g] = {}]
      BY <1>5, <2>1
    <2>4. gid' \in [Group -> Nat \cup {None}] /\ members' \in [Group -> SUBSET User]
      BY <1>3, <2>2, <2>3
    <2>5. UidInv'
      BY <1>1, <1>5 DEF UidInv
    <2>6. gid'[g] = None /\ \A h \in Group : h # g => gid'[h] = gid[h]
      BY <1>3, <2>2, <2>3
    <2>7. GidInv'
      BY <1>1, <2>6 DEF IInv, GidInv
    <2> QED BY <1>1, <1>2, <1>3, <1>5, <2>4, <2>5, <2>7, AgainStep
  <1>6. CASE /\ UserCall /\ check_user_validity(row)
             /\ uid' = [uid EXCEPT ![row.user] = None]
             /\ ugid' = [ugid EXCEPT ![row.user] = None]
             /\ UNCHANGED <<gid, members>>
    <2>1. PICK u : u = row.user
      OBVIOUS
    <2>2. u \in User
      BY <1>6, <2>1, UserArgs, RowFacts
    <2>3. u # "root" /\ uid' = [uid EXCEPT ![u] = None] /\ ugid' = [ugid EXCEPT ![u] = None]
      BY <1>6, <2>1 DEF check_user_validity
    <2>4. UidInv' /\ uid' \in [User -> Nat \cup {None}]
      BY <1>1, <2>2, <2>3, RemoveUser
    <2>5. ugid' \in [User -> Nat \cup {None}]
      BY <1>3, <2>2, <2>3
    <2>6. GidInv'
      BY <1>1, <1>6 DEF IInv, GidInv
    <2> QED BY <1>1, <1>2, <1>3, <1>6, <2>4, <2>5, <2>6, AgainStep
  <1> QED BY <1>4, <1>5, <1>6 DEF Interrupted

(* The first run has dealt with no row yet. *)
LEMMA InitStep == Init => IInv
  <1> SUFFICES ASSUME Init PROVE IInv
    OBVIOUS
  <1>1. /\ table \in Tables /\ pass = 1 /\ line = 1 /\ sub = 1
        /\ status = "running" /\ cuts = 0 /\ runs = 1
    BY DEF Init
  <1>2. PICK s \in Skeletons : uid = s.uid /\ ugid = s.ugid /\ gid = s.gid
                               /\ members = s.members
    BY DEF Init
  <1>3. s \in Skeleton
    BY MkusersAssumption
  <1>4. [uid |-> s.uid, ugid |-> s.ugid, gid |-> s.gid, members |-> s.members] \in Skeleton
    BY <1>3 DEF Skeleton
  <1>5. table \in Seq(Row) /\ runs \in 1 .. MaxRuns
    BY <1>1, MkusersAssumption
  <1>6. TypeOK
    <2>1. pass \in 1 .. Len(main) + 1 /\ {line, sub} \subseteq Nat \ {0} /\ cuts \in Nat
      BY <1>1, MainFacts
    <2> QED BY <1>1, <1>2, <1>4, <1>5, <2>1, Zenon DEF TypeOK
  <1>7. PosInv
    <2>1. table # <<>> => 1 <= Len(table)
      BY <1>5
    <2>2. \A i \in DOMAIN table : table[i].uid >= Automatic
      BY <1>1, InputAssumption
    <2> QED BY <1>1, <2>1, <2>2 DEF PosInv
  <1>8. UidInv
    BY <1>2, InputAssumption DEF UidInv
  <1>9. GidInv
    <2>1. Distinct(gid) /\ DOMAIN gid = Group
      BY <1>2, <1>6, FileFacts, InputAssumption
    <2> QED BY <2>1 DEF GidInv, Distinct
  <1>10. ASSUME NEW i \in DOMAIN table PROVE ~GroupDone(i) /\ ~UserDone(i)
    <2>1. i \in Nat \ {0}
      BY <1>5
    <2> QED BY <1>1, <2>1 DEF GroupDone, UserDone, Past
  <1>11. GroupInv /\ UserInv
    BY <1>10 DEF GroupInv, UserInv
  <1> QED BY <1>6, <1>7, <1>8, <1>9, <1>11 DEF IInv

(* IInv is inductive: one case per action. *)
LEMMA NextStep == IInv /\ [Next]_vars => IInv'
  <1> SUFFICES ASSUME IInv, [Next]_vars PROVE IInv'
    OBVIOUS
  <1>1. CASE UNCHANGED vars
    <2>1. /\ uid' = uid /\ ugid' = ugid /\ gid' = gid /\ members' = members
          /\ table' = table /\ pass' = pass /\ line' = line /\ sub' = sub
          /\ runs' = runs /\ cuts' = cuts /\ status' = status
      BY <1>1 DEF vars, files, place
    <2>2. TypeOK'
      BY <2>1, Zenon DEF IInv, TypeOK
    <2>3. PosInv'
      BY <2>1 DEF IInv, PosInv
    <2>4. UidInv' /\ GidInv' /\ GroupInv'
      BY <2>1 DEF IInv, UidInv, GidInv, GroupInv, GroupDone, Past
    <2>5. UserInv'
      BY <2>1 DEF IInv, UserInv, UserDone, Past, Honoured, get_group
    <2> QED BY <2>2, <2>3, <2>4, <2>5 DEF IInv
  <1>2. CASE Next
    BY <1>2, SkipStep, GroupStep, UserStep, FinishStep, RerunStep, InterruptedStep
    DEF Next
  <1> QED BY <1>1, <1>2

(* IInv is an invariant of the script and of its runs. *)
LEMMA Invariance == Spec => []IInv
  BY InitStep, NextStep, PTL DEF Spec
--------------------------------------------------------------------------------
(* What the invariant says at the end of a run: every row has been done... *)
LEMMA AllHonoured ==
    ASSUME IInv, status # "failed", pass > 5 \/ table = <<>>
    PROVE  \A i \in DOMAIN table : UserDone(i) /\ Honoured(table[i]) /\ table[i] \in Row
  <1> SUFFICES ASSUME NEW i \in DOMAIN table
               PROVE  UserDone(i) /\ Honoured(table[i]) /\ table[i] \in Row
    OBVIOUS
  <1>1. table[i] \in Row /\ table # <<>>
    BY PlaceFacts DEF IInv
  <1>2. pass > 5 /\ pass \in Int
    BY <1>1, PlaceFacts DEF IInv
  <1>3. table[i].uid >= 0 \/ table[i].uid = Automatic
    BY <1>1, RowFacts DEF IInv, PosInv, Automatic
  <1>4. UserDone(i)
    BY <1>2, <1>3 DEF UserDone, Past
  <1> QED BY <1>1, <1>4 DEF IInv, UserInv

(* ... and no two groups share a gid: a row would insist on it, and would  *)
(* have been refused.                                                      *)
LEMMA AllDistinct ==
    ASSUME IInv, status # "failed", pass > 5 \/ table = <<>>
    PROVE  Distinct(gid) /\ Distinct(uid)
  <1>1. Distinct(uid)
    BY DEF IInv, UidInv
  <1>2. DOMAIN gid = Group
    BY FileFacts DEF IInv
  <1>3. ASSUME NEW g \in Group, NEW h \in Group, g # h, gid[g] # None, gid[g] = gid[h]
        PROVE  FALSE
    <2>1. PICK i \in DOMAIN table : table[i].gid = gid[g]
      BY <1>3 DEF IInv, GidInv
    <2>2. Honoured(table[i])
      BY AllHonoured
    <2>3. gid[g] # Automatic
      BY <1>3, FileFacts DEF IInv, Automatic, None
    <2>4. get_group(gid[g]) \subseteq {table[i].group}
      BY <2>1, <2>2, <2>3 DEF Honoured
    <2> QED BY <1>3, <2>4 DEF get_group
  <1> QED BY <1>1, <1>2, <1>3 DEF Distinct

(* The files hold names and numbers only, whatever the tables, the target  *)
(* directories and the interruptions: add_one_group never writes the -1    *)
(* that stands for an automatic gid, nor add_one_user a missing gid.       *)
THEOREM TypeTheorem == Spec => []TypeOK
  <1>1. IInv => TypeOK
    BY DEF IInv
  <1> QED BY <1>1, Invariance, PTL

(* No two users and no two groups share an id once a run of main succeeds: *)
(* only check_user_validity stands between two groups with one gid and the *)
(* image, and it meets every gid that the group passes may have doubled.   *)
THEOREM UniqueTheorem == Spec => []UniqueIds
  <1>1. IInv => UniqueIds
    BY AllDistinct DEF IInv, PosInv, UniqueIds
  <1> QED BY <1>1, Invariance, PTL

(* Once a run of main succeeds every row of the table is in the files with *)
(* the ids it asks for, though a later row may name the same user or group *)
(* and every call removes the entry and writes it anew.                    *)
THEOREM HonouredTheorem == Spec => []TableHonoured
  <1>1. IInv => TableHonoured
    <2> SUFFICES ASSUME IInv, status = "done", NEW i \in DOMAIN table, NEW r, r = table[i]
                 PROVE  /\ uid[r.user] \in IF r.uid = Automatic THEN Nat \ {0} ELSE {r.uid}
                        /\ gid[r.group] \in IF r.gid = Automatic THEN Nat ELSE {r.gid}
                        /\ ugid[r.user] = gid[r.group]
                        /\ \A g \in ToSet(r.groups) : r.user \in members[g]
      BY DEF TableHonoured
    <2>1. Honoured(r) /\ r \in Row
      BY AllHonoured DEF IInv, PosInv
    <2>2. gid[r.group] \in Nat
      BY <2>1, FileFacts, RowFacts DEF IInv, Honoured
    <2> QED BY <2>1, <2>2 DEF Honoured
  <1> QED BY <1>1, Invariance, PTL
================================================================================
