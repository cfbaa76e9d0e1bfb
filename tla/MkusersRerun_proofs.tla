-------------------------- MODULE MkusersRerun_proofs --------------------------
(***************************************************************************)
(* A run of mkusers for a further image changes nothing, and the run after *)
(* an interruption fails only for want of an automatic id, for every table *)
(* and every target directory.                                             *)
(***************************************************************************)
EXTENDS Mkusers_proofs

(* The additional group j of the row at i has been added in this run. *)
MoreDone(i, j) == pass > 3 \/ (pass = 3 /\ (i < line \/ (i = line /\ j < sub)))

(* The group g has been added anew, and so without members, in this run. *)
Handled(g) ==
    \E i \in DOMAIN table :
        \/ g = table[i].group /\ GroupDone(i)
        \/ \E j \in DOMAIN table[i].groups : g = table[i].groups[j] /\ MoreDone(i, j)

(* The users that this run has made members of g, and those that it is to. *)
Joined(g) ==
    {u \in User : \E i \in DOMAIN table :
        UserDone(i) /\ u = table[i].user /\ g \in ToSet(table[i].groups)}

Wished(g) ==
    {u \in User : \E i \in DOMAIN table :
        u = table[i].user /\ g \in ToSet(table[i].groups)}

Touched(g) ==
    \E i \in DOMAIN table : g = table[i].group \/ g \in ToSet(table[i].groups)

(* What add_one_user makes sure of that does not depend on the files. *)
RowOK(r) ==
    /\ r.user # "root" /\ r.home # "invalid"
    /\ r.gid >= Automatic /\ r.gid # 0 /\ r.uid >= Automatic /\ r.uid # 0

RowInv == \A i \in DOMAIN table : UserDone(i) => RowOK(table[i])

MoreInv ==
    \A i \in DOMAIN table : \A j \in DOMAIN table[i].groups :
        MoreDone(i, j) => gid[table[i].groups[j]] # None

(* A group that has been added anew has the members this run gave it. *)
MemberInv ==
    status # "failed" => \A g \in Group : Handled(g) => members[g] = Joined(g)

(* The ids U, UG and G and the members M honour the row r. *)
Kept(U, UG, G, r) ==
    /\ RowOK(r)
    /\ U[r.user] # None /\ (r.uid # Automatic => U[r.user] = r.uid)
    /\ G[r.group] # None /\ (r.gid # Automatic => G[r.group] = r.gid)
    /\ UG[r.user] = G[r.group]
    /\ \A g \in ToSet(r.groups) : G[g] # None

(* The files of the last complete run. *)
ImageInv ==
    image # <<>> =>
        /\ image = <<image[1], image[2], image[3], image[4]>>
        /\ image[1] \in [User -> Nat \cup {None}] /\ Distinct(image[1])
        /\ image[2] \in [User -> Nat \cup {None}]
        /\ image[3] \in [Group -> Nat \cup {None}] /\ Distinct(image[3])
        /\ image[4] \in [Group -> SUBSET User]
        /\ \A i \in DOMAIN table : Kept(image[1], image[2], image[3], table[i])
        /\ \A g \in Group : Touched(g) => image[4][g] = Wished(g)

(* At most one entry of the ids is not what it was. *)
OneOff(ids, old, S) == \E x \in S : \A y \in S : y # x => ids[y] = old[y]

(* How far the files may be from those of the last complete run, on a row  *)
(* and altogether.                                                         *)
NearTo(UG, r) ==
    /\ r.gid # Automatic => gid[r.group] \in {None, r.gid}
    /\ r.uid # Automatic => uid[r.user] \in {None, r.uid}
    /\ \/ ugid[r.user] \in {None, UG[r.user]}
       \/ pass > 3 /\ ugid[r.user] = gid[r.group]

StableInv ==
    /\ status = "done" => image # <<>> /\ cuts = 0
    /\ image # <<>> /\ status # "failed" =>
          /\ cuts = 0 => uid = image[1] /\ ugid = image[2] /\ gid = image[3]
          /\ cuts <= 1 =>
                /\ Distinct(gid)
                /\ OneOff(gid, image[3], Group) /\ OneOff(uid, image[1], User)
                /\ \A i \in DOMAIN table : NearTo(image[2], table[i])
          /\ \A g \in Group : ~Touched(g) => members[g] = image[4][g]

RInv == IInv /\ RowInv /\ MoreInv /\ MemberInv /\ ImageInv /\ StableInv
--------------------------------------------------------------------------------
(* Ids that differ from the old ones in one place use an old id only for   *)
(* the name that had it.                                                   *)
LEMMA OneOffFacts ==
    ASSUME NEW S, NEW ids \in [S -> Nat \cup {None}], NEW old \in [S -> Nat \cup {None}],
           Distinct(ids), Distinct(old), OneOff(ids, old, S),
           NEW y \in S, old[y] # None, NEW z \in S, ids[z] = old[y]
    PROVE  z = y
  <1> SUFFICES ASSUME z # y PROVE FALSE
    OBVIOUS
  <1>1. PICK x \in S : \A w \in S : w # x => ids[w] = old[w]
    BY DEF OneOff
  <1>2. CASE z # x
    BY <1>1, <1>2 DEF Distinct
  <1>3. CASE z = x
    BY <1>1, <1>3 DEF Distinct
  <1> QED BY <1>2, <1>3

(* Going on to the next additional group adds the one that is left. *)
LEMMA MoreFacts ==
    ASSUME TypeOK, PosInv, AtRow, Continue,
           NEW i \in DOMAIN table, NEW j \in DOMAIN table[i].groups, MoreDone(i, j)'
    PROVE  MoreDone(i, j) \/ (pass = 3 /\ i = line /\ j = sub /\ ~Skipped)
  <1>1. /\ table \in Seq(Row) /\ pass \in 1 .. 5 /\ line \in Nat \ {0} /\ sub \in Nat \ {0}
        /\ line \in 1 .. Len(table) /\ Len(table) \in Nat
        /\ DOMAIN table = 1 .. Len(table) /\ i \in 1 .. Len(table)
    BY PlaceFacts, MainFacts DEF AtRow
  <1>2. table[i].groups \in Seq(Group) /\ j \in 1 .. Len(table[i].groups)
    BY <1>1, RowFacts
  <1>3. j \in Int /\ 1 <= j /\ j <= Len(table[i].groups) /\ Len(table[i].groups) \in Nat
    BY <1>2
  <1>4. main[pass] = "more_groups" <=> pass = 3
    BY <1>1, PassFacts
  <1>5. pass = 3 /\ i = line => ~Skipped
    <2>1. pass = 3 => (Skipped <=> row.groups = <<>>)
      BY SkipFacts
    <2>2. table[i].groups # <<>>
      BY <1>3
    <2> QED BY <2>1, <2>2 DEF row
  <1>6. CASE pass = 3 /\ sub < Len(row.groups)
    <2>1. sub' = sub + 1 /\ pass' = pass /\ line' = line
      BY <1>4, <1>6 DEF Continue
    <2> QED BY <1>1, <1>3, <1>5, <1>6, <2>1 DEF MoreDone
  <1>7. CASE ~(pass = 3 /\ sub < Len(row.groups))
    <2> PICK len, lg : len = Len(table) /\ lg = Len(table[i].groups)
      OBVIOUS
    <2>1. /\ len \in Nat /\ line \in 1 .. len /\ i \in 1 .. len
          /\ lg \in Nat /\ j \in 1 .. lg
      BY <1>1, <1>2, <1>3
    <2>2. IF line < len THEN line' = line + 1 /\ pass' = pass
                        ELSE line' = 1 /\ pass' = pass + 1
      BY <1>4, <1>7 DEF Continue
    <2>3. sub' = 1
      BY <1>4, <1>7 DEF Continue
    <2>4. pass = 3 /\ i = line => ~(sub < lg)
      BY <1>7 DEF row
    <2>5. pass = 3 /\ i = line => j <= sub
      BY <1>1, <2>1, <2>4
    <2>6. CASE line < len /\ line' = line + 1 /\ pass' = pass
      BY <1>1, <1>5, <2>1, <2>3, <2>5, <2>6 DEF MoreDone
    <2>7. CASE line = len /\ line' = 1 /\ pass' = pass + 1
      BY <1>1, <1>5, <2>1, <2>3, <2>5, <2>7 DEF MoreDone
    <2> QED BY <2>1, <2>2, <2>6, <2>7
  <1> QED BY <1>6, <1>7

(* What is done stays done within a run, and the users' rows are done by   *)
(* the calls for them.                                                     *)
LEMMA StaysDone ==
    ASSUME TypeOK, PosInv, AtRow, Continue, NEW i \in DOMAIN table
    PROVE  /\ UserDone(i) => UserDone(i)'
           /\ UserCall /\ i = line => UserDone(i)'
           /\ pass' >= pass
  <1>1. /\ table \in Seq(Row) /\ pass \in 1 .. 5 /\ line \in Nat \ {0}
        /\ line \in 1 .. Len(table) /\ Len(table) \in Nat /\ i \in 1 .. Len(table)
    BY PlaceFacts, MainFacts DEF AtRow
  <1>2. table' = table
    BY DEF Continue
  <1>3. \/ pass' = pass /\ line' = line /\ pass = 3
        \/ pass' = pass /\ line' = line + 1
        \/ pass' = pass + 1 /\ line' = 1 /\ line = Len(table)
    BY <1>1, PassFacts DEF Continue
  <1>4. UserDone(i) => UserDone(i)'
    BY <1>1, <1>2, <1>3 DEF UserDone, Past
  <1>5. ASSUME UserCall, i = line PROVE UserDone(i)'
    <2>1. /\ pass \in 4 .. 5
          /\ pass = 4 => ~(row.uid < 0)
          /\ pass = 5 => ~(row.uid # Automatic)
      BY <1>5, SkipFacts
    <2>2. row = table[i] /\ row.uid \in Int
      BY <1>5, SkipFacts, RowFacts DEF row
    <2>3. CASE pass = 4 /\ table[i].uid >= 0
      BY <1>1, <1>2, <1>3, <1>5, <2>3 DEF UserDone, Past
    <2>4. CASE pass = 5 /\ table[i].uid = Automatic
      BY <1>1, <1>2, <1>3, <1>5, <2>4 DEF UserDone, Past
    <2> QED BY <2>1, <2>2, <2>3, <2>4
  <1>6. pass' >= pass
    BY <1>1, <1>3
  <1> QED BY <1>4, <1>5, <1>6

(* The group of a call of add_one_group is one that the last complete run  *)
(* left in the files, with the gid that a row insists on.                  *)
LEMMA GroupKept ==
    ASSUME RInv, GroupCall, image # <<>>
    PROVE  /\ Name \in Group /\ Touched(Name) /\ image[3][Name] # None
           /\ Wanted # Automatic => Wanted = image[3][Name]
  <1>1. TypeOK /\ PosInv /\ ImageInv /\ AtRow
    BY DEF RInv, IInv, GroupCall
  <1>2. /\ pass \in 1 .. 3 /\ line \in DOMAIN table /\ Name \in Group
    BY <1>1, GroupArgs
  <1>3. Kept(image[1], image[2], image[3], table[line]) /\ table[line] \in Row
    BY <1>1, <1>2, PlaceFacts DEF ImageInv
  <1>4. row = table[line]
    BY DEF row
  <1>5. main[pass] = "more_groups" <=> pass = 3
    BY <1>2, PassFacts
  <1>6. CASE pass = 3
    <2>1. row.groups # <<>> /\ row.groups \in Seq(Group)
      BY <1>1, <1>3, <1>4, <1>6, SkipFacts, RowFacts DEF GroupCall
    <2>2. sub \in 1 .. Len(row.groups)
      BY <1>1, <1>4, <1>6, <2>1, PlaceFacts DEF PosInv, AtRow
    <2>3. row.groups[sub] \in ToSet(row.groups)
      BY <2>1, <2>2 DEF ToSet
    <2>4. Name = row.groups[sub] /\ Wanted = Automatic
      BY <1>5, <1>6 DEF Name, Wanted
    <2> QED BY <1>2, <1>3, <1>4, <2>3, <2>4 DEF Kept, Touched
  <1>7. CASE pass # 3
    <2>1. Name = row.group /\ Wanted = row.gid
      BY <1>5, <1>7 DEF Name, Wanted
    <2> QED BY <1>2, <1>3, <1>4, <2>1 DEF Kept, Touched
  <1> QED BY <1>6, <1>7

(* One interruption at most after a complete run, add_one_group finds a    *)
(* gid unless there is none left.                                          *)
LEMMA GroupSucceeds ==
    ASSUME RInv, add_one_group, image # <<>>,
           cuts = 0 \/ (cuts = 1 /\ IdLeft(gid, MIN_GID, MAX_GID))
    PROVE  status' # "failed"
  <1>1. TypeOK /\ PosInv /\ GroupCall /\ status = "running"
    BY DEF RInv, IInv, add_one_group, GroupCall, AtRow
  <1>2. gid \in [Group -> Nat \cup {None}] /\ MIN_GID \in Nat /\ MAX_GID \in Nat
    BY <1>1, FileFacts, MkusersAssumption
  <1>3. PICK g : g = Name
    OBVIOUS
  <1>4. PICK n : n = IF Wanted = Automatic THEN generate_gid(g) ELSE Wanted
    OBVIOUS
  <1>5. /\ g \in Group /\ image[3][g] # None
        /\ Wanted # Automatic => Wanted = image[3][g]
    BY <1>1, <1>3, GroupKept
  <1>6. n # None
    <2>1. CASE Wanted # Automatic
      BY <1>4, <1>5, <2>1
    <2>2. CASE Wanted = Automatic /\ gid[g] # None
      BY <1>4, <2>2 DEF generate_gid, generate_id
    <2>3. CASE Wanted = Automatic /\ gid[g] = None
      <3> DEFINE free == {m \in MIN_GID .. MAX_GID : \A y \in DOMAIN gid : gid[y] # m}
      <3>0. free \in SUBSET Nat
        BY <1>2
      <3>1. cuts # 0
        BY <1>1, <1>5, <2>3 DEF RInv, StableInv
      <3>2. free # {}
        BY <3>1, Zenon DEF IdLeft
      <3>3. n = Min(free)
        BY <1>4, <2>3, <3>2 DEF generate_gid, generate_id
      <3>4. n \in Nat
        BY <3>0, <3>2, <3>3, MinFacts
      <3> QED BY <3>4 DEF None
    <2> QED BY <2>1, <2>2, <2>3
  <1>7. n # None => Continue
    BY <1>3, <1>4, Zenon DEF add_one_group
  <1> QED BY <1>1, <1>6, <1>7 DEF Continue

(* The checks of add_one_user pass, one interruption at most after a       *)
(* complete run.                                                           *)
LEMMA UserKept ==
    ASSUME RInv, UserCall, image # <<>>, cuts <= 1
    PROVE  check_user_validity(row) /\ row.home # "invalid"
  <1>1. /\ IInv /\ TypeOK /\ UidInv /\ ImageInv /\ status = "running"
    BY DEF RInv, IInv, UserCall, AtRow
  <1>2. line \in DOMAIN table /\ row \in Row /\ row = table[line]
    BY <1>1, UserArgs
  <1>3. PICK r : r = row
    OBVIOUS
  <1>4. /\ r.user \in User /\ r.group \in Group /\ r.gid \in Int /\ r.uid \in Int
    BY <1>2, <1>3, RowFacts
  <1>5. PICK U, UG, G : U = image[1] /\ UG = image[2] /\ G = image[3]
    OBVIOUS
  <1>6. /\ U \in [User -> Nat \cup {None}] /\ Distinct(U)
        /\ G \in [Group -> Nat \cup {None}] /\ Distinct(G)
        /\ Kept(U, UG, G, r)
    BY <1>1, <1>2, <1>3, <1>5 DEF ImageInv
  <1>7. /\ uid \in [User -> Nat \cup {None}] /\ gid \in [Group -> Nat \cup {None}]
        /\ Distinct(uid)
    BY <1>1, FileFacts DEF UidInv
  <1>8. /\ Distinct(gid) /\ OneOff(gid, G, Group) /\ OneOff(uid, U, User)
        /\ NearTo(UG, r)
    BY <1>1, <1>2, <1>3, <1>5 DEF RInv, StableInv
  <1>9. \A g \in Group : gid[g] = G[r.group] => g = r.group
    <2>1. G[r.group] # None
      BY <1>6 DEF Kept
    <2> QED BY <1>4, <1>6, <1>7, <1>8, <2>1, OneOffFacts
  <1>10. \A u \in User : uid[u] = U[r.user] => u = r.user
    <2>1. U[r.user] # None
      BY <1>6 DEF Kept
    <2> QED BY <1>4, <1>6, <1>7, <1>8, <2>1, OneOffFacts
  <1>11. RowOK(r) /\ UG[r.user] = G[r.group]
    BY <1>6 DEF Kept
  <1>12. ASSUME r.gid # Automatic
         PROVE  /\ get_group(r.gid) \subseteq {r.group}
                /\ gid[r.group] \in {None, r.gid} /\ ugid[r.user] \in {None, r.gid}
    <2>1. G[r.group] = r.gid
      BY <1>6, <1>12 DEF Kept
    <2>2. get_group(r.gid) \subseteq {r.group}
      BY <1>9, <2>1 DEF get_group
    <2> QED BY <1>8, <1>11, <1>12, <2>1, <2>2 DEF NearTo
  <1>13. ASSUME r.uid # Automatic
         PROVE  get_username(r.uid) \subseteq {r.user} /\ uid[r.user] \in {None, r.uid}
    <2>1. U[r.user] = r.uid
      BY <1>6, <1>13 DEF Kept
    <2>2. get_username(r.uid) \subseteq {r.user}
      BY <1>10, <2>1 DEF get_username
    <2> QED BY <1>8, <1>13, <2>2 DEF NearTo
  <1>14. ASSUME ugid[r.user] # None
         PROVE  get_group(ugid[r.user]) \subseteq {r.group}
    <2>1. ugid[r.user] = G[r.group] \/ ugid[r.user] = gid[r.group]
      BY <1>8, <1>11, <1>14 DEF NearTo
    <2>2. \A g \in Group : gid[g] = ugid[r.user] => g = r.group
      BY <1>4, <1>7, <1>8, <1>9, <1>14, <2>1 DEF Distinct
    <2> QED BY <2>2 DEF get_group
  <1> QED BY <1>3, <1>11, <1>12, <1>13, <1>14 DEF check_user_validity, RowOK

(* So add_one_user succeeds unless there is no uid left. *)
LEMMA UserSucceeds ==
    ASSUME RInv, add_one_user, image # <<>>,
           cuts = 0 \/ (cuts = 1 /\ IdLeft(uid, MIN_UID, MAX_UID))
    PROVE  status' # "failed"
  <1>1. IInv /\ TypeOK /\ UserCall /\ status = "running"
    BY DEF RInv, IInv, add_one_user, UserCall, AtRow
  <1>2. uid \in [User -> Nat \cup {None}] /\ MIN_UID \in Nat /\ MAX_UID \in Nat
    BY <1>1, FileFacts, MkusersAssumption
  <1>3. PICK r : r = row
    OBVIOUS
  <1>4. PICK n : n = IF r.uid = Automatic THEN generate_uid(r.user) ELSE r.uid
    OBVIOUS
  <1>5. check_user_validity(r) /\ r.home # "invalid"
    BY <1>1, <1>3, UserKept
  <1>6. line \in DOMAIN table /\ r = table[line]
    BY <1>1, <1>3, UserArgs
  <1>7. n # None
    <2>1. CASE r.uid # Automatic
      BY <1>4, <1>5, <2>1 DEF check_user_validity, Automatic, None
    <2>2. CASE r.uid = Automatic /\ uid[r.user] # None
      BY <1>4, <2>2 DEF generate_uid, generate_id
    <2>3. CASE r.uid = Automatic /\ uid[r.user] = None
      <3> DEFINE free == {m \in MIN_UID .. MAX_UID : \A y \in DOMAIN uid : uid[y] # m}
      <3>0. free \in SUBSET Nat
        BY <1>2
      <3>1. cuts # 0
        <4>1. image[1][r.user] # None
          BY <1>6 DEF RInv, ImageInv, Kept
        <4> QED BY <1>1, <2>3, <4>1 DEF RInv, StableInv
      <3>2. free # {}
        BY <3>1, Zenon DEF IdLeft
      <3>3. n = Min(free)
        BY <1>4, <2>3, <3>2 DEF generate_uid, generate_id
      <3>4. n \in Nat
        BY <3>0, <3>2, <3>3, MinFacts
      <3> QED BY <3>4 DEF None
    <2> QED BY <2>1, <2>2, <2>3
  <1>8. check_user_validity(r) /\ n # None /\ r.home # "invalid" => Continue
    BY <1>3, <1>4, Zenon DEF add_one_user
  <1> QED BY <1>1, <1>5, <1>7, <1>8 DEF Continue
--------------------------------------------------------------------------------
(* The actions. *)

(* What is said of the image depends on the table and the image alone. *)
LEMMA ImageSame ==
    ASSUME ImageInv, table' = table, image' = image
    PROVE  ImageInv'
  BY DEF ImageInv, Touched, Wished

(* A row that is skipped is newly done in no pass. *)
LEMMA SkipDone ==
    ASSUME TypeOK, PosInv, Skip, NEW i \in DOMAIN table
    PROVE  /\ GroupDone(i)' => GroupDone(i)
           /\ UserDone(i)' <=> UserDone(i)
           /\ \A j \in DOMAIN table[i].groups : MoreDone(i, j)' => MoreDone(i, j)
  <1>1. AtRow /\ Skipped /\ Continue
    BY DEF Skip
  <1>2. /\ pass = 1 => table[line].gid < 0
        /\ pass = 2 => table[line].gid # Automatic
        /\ pass = 4 => table[line].uid < 0
        /\ pass = 5 => table[line].uid # Automatic
    BY <1>1, SkipFacts DEF row
  <1>3. table[i].gid \in Int /\ table[i].uid \in Int
    BY PlaceFacts, RowFacts
  <1>4. /\ ~(i = line /\ pass = 1 /\ table[i].gid >= 0)
        /\ ~(i = line /\ pass = 2 /\ table[i].gid = Automatic)
        /\ ~(i = line /\ pass = 4 /\ table[i].uid >= 0)
        /\ ~(i = line /\ pass = 5 /\ table[i].uid = Automatic)
    BY <1>2, <1>3
  <1>5. (GroupDone(i)' => GroupDone(i)) /\ (UserDone(i)' => UserDone(i))
    BY <1>1, <1>4, DoneFacts
  <1>6. UserDone(i) => UserDone(i)'
    BY <1>1, StaysDone
  <1>7. \A j \in DOMAIN table[i].groups : MoreDone(i, j)' => MoreDone(i, j)
    BY <1>1, MoreFacts
  <1> QED BY <1>5, <1>6, <1>7

(* A row that a pass goes past. *)
LEMMA SkipRerun == RInv /\ Skip => RInv'
  <1> SUFFICES ASSUME RInv, Skip PROVE RInv'
    OBVIOUS
  <1>1. IInv /\ TypeOK /\ PosInv /\ AtRow /\ Continue /\ ImageInv
    BY DEF RInv, IInv, Skip
  <1>2. /\ uid' = uid /\ ugid' = ugid /\ gid' = gid /\ members' = members
        /\ table' = table /\ status' = status /\ image' = image /\ cuts' = cuts
    BY <1>1 DEF Skip, files, Continue
  <1>3. IInv' /\ ImageInv'
    BY <1>1, <1>2, SkipStep, ImageSame
  <1>4. RowInv' /\ MoreInv'
    BY <1>1, <1>2, SkipDone DEF RInv, RowInv, MoreInv
  <1>5. MemberInv'
    <2>1. ASSUME NEW g \in Group PROVE Handled(g)' => Handled(g)
      BY <1>1, <1>2, SkipDone DEF Handled
    <2>2. ASSUME NEW g \in Group PROVE Joined(g)' = Joined(g)
      BY <1>1, <1>2, SkipDone DEF Joined
    <2> QED BY <1>2, <2>1, <2>2 DEF RInv, MemberInv
  <1>6. StableInv'
    <2>1. pass > 3 => pass' > 3
      <3>1. pass' >= pass
        BY <1>1, StaysDone, PlaceFacts, SkipFacts
      <3>2. pass \in Int /\ pass' \in Int
        BY <1>1, PlaceFacts, ContinueFacts
      <3> QED BY <3>1, <3>2
    <2>2. ASSUME NEW UG, NEW r, NearTo(UG, r) PROVE NearTo(UG, r)'
      BY <1>2, <2>1, <2>2 DEF NearTo
    <2>3. \A g \in Group : Touched(g)' <=> Touched(g)
      BY <1>2 DEF Touched
    <2>4. ASSUME image # <<>>, status # "failed", cuts <= 1, NEW i \in DOMAIN table
          PROVE  NearTo(image[2], table[i])'
      <3>1. PICK UG, r : UG = image[2] /\ r = table[i]
        OBVIOUS
      <3>2. NearTo(UG, r)'
        BY <2>2, <2>4, <3>1 DEF RInv, StableInv
      <3> QED BY <1>2, <3>1, <3>2
    <2> QED BY <1>2, <2>3, <2>4 DEF RInv, StableInv
  <1> QED BY <1>3, <1>4, <1>5, <1>6 DEF RInv

(* After a failure the files are not compared with the image any more. *)
LEMMA FailRerun ==
    ASSUME RInv, Fail, IInv', gid' = gid
    PROVE  RInv'
  <1>1. /\ table' = table /\ pass' = pass /\ line' = line /\ sub' = sub
        /\ status' = "failed" /\ image' = image
    BY DEF Fail, place
  <1>2. ImageInv'
    BY <1>1, ImageSame DEF RInv
  <1>3. RowInv' /\ MoreInv'
    BY <1>1 DEF RInv, RowInv, MoreInv, UserDone, MoreDone, Past
  <1>4. MemberInv' /\ StableInv'
    BY <1>1 DEF MemberInv, StableInv
  <1> QED BY <1>2, <1>3, <1>4 DEF RInv

(* add_one_group finds the gid the group had, or has lost the one it had   *)
(* to an interruption.                                                     *)
LEMMA GroupRerun == RInv /\ add_one_group => RInv'
  <1> SUFFICES ASSUME RInv, add_one_group PROVE RInv'
    OBVIOUS
  <1>1. /\ IInv /\ TypeOK /\ PosInv /\ GroupInv /\ ImageInv /\ GroupCall
        /\ status = "running"
    BY DEF RInv, IInv, add_one_group, GroupCall, AtRow
  <1>2. IInv'
    BY <1>1, GroupStep
  <1>3. gid \in [Group -> Nat \cup {None}] /\ members \in [Group -> SUBSET User]
    BY <1>1, FileFacts
  <1>4. PICK g : g = Name
    OBVIOUS
  <1>5. PICK n : n = IF Wanted = Automatic THEN generate_gid(g) ELSE Wanted
    OBVIOUS
  <1>6. AtRow /\ pass \in 1 .. 3 /\ line \in DOMAIN table /\ g \in Group
    BY <1>1, <1>4, GroupArgs
  <1>7. CASE n = None /\ Fail /\ UNCHANGED files
    BY <1>2, <1>7, FailRerun DEF files
  <1>8. CASE /\ n # None /\ Continue
             /\ gid' = [gid EXCEPT ![g] = n] /\ members' = [members EXCEPT ![g] = {}]
             /\ UNCHANGED <<uid, ugid>>
    <2>1. /\ table' = table /\ status' = status /\ image' = image /\ cuts' = cuts
          /\ uid' = uid /\ ugid' = ugid
      BY <1>8 DEF Continue
    <2>2. /\ gid'[g] = n /\ members'[g] = {}
          /\ \A h \in Group : h # g => gid'[h] = gid[h] /\ members'[h] = members[h]
      BY <1>3, <1>6, <1>8
    <2>3. ImageInv'
      BY <1>1, <2>1, ImageSame
    <2>4. \A i \in DOMAIN table : ~UserDone(i) /\ ~UserDone(i)'
      <3> SUFFICES ASSUME NEW i \in DOMAIN table PROVE ~UserDone(i) /\ ~UserDone(i)'
        OBVIOUS
      <3>1. ~UserDone(i)
        BY <1>6 DEF UserDone, Past
      <3>2. pass # 4 /\ pass # 5
        BY <1>6
      <3> QED BY <1>1, <1>6, <1>8, <3>1, <3>2, DoneFacts
    <2>5. RowInv'
      BY <2>1, <2>4 DEF RowInv
    <2>6. ASSUME NEW i \in DOMAIN table, NEW j \in DOMAIN table[i].groups, MoreDone(i, j)'
          PROVE  MoreDone(i, j) \/ table[i].groups[j] = g
      <3>1. MoreDone(i, j) \/ (pass = 3 /\ i = line /\ j = sub)
        BY <1>1, <1>6, <1>8, <2>6, MoreFacts
      <3>2. pass = 3 => Name = table[line].groups[sub]
        BY <1>6, PassFacts DEF Name, row
      <3> QED BY <1>4, <3>1, <3>2
    <2>7. MoreInv'
      <3> SUFFICES ASSUME NEW i \in DOMAIN table, NEW j \in DOMAIN table[i].groups,
                          MoreDone(i, j)'
                   PROVE  gid'[table[i].groups[j]] # None
        BY <2>1 DEF MoreInv
      <3>1. table[i].groups[j] \in Group
        BY <1>1, PlaceFacts, RowFacts
      <3> QED BY <1>8, <2>2, <2>6, <3>1 DEF RInv, MoreInv
    <2>8. ASSUME NEW h \in Group, Handled(h)' PROVE Handled(h) \/ h = g
      <3>1. PICK i \in DOMAIN table :
               \/ h = table[i].group /\ GroupDone(i)'
               \/ \E j \in DOMAIN table[i].groups : h = table[i].groups[j] /\ MoreDone(i, j)'
        BY <2>1, <2>8 DEF Handled
      <3>2. CASE h = table[i].group /\ GroupDone(i)'
        <4>1. GroupDone(i) \/ (i = line /\ pass # 3)
          BY <1>1, <1>6, <1>8, <3>2, DoneFacts
        <4>2. pass # 3 => g = table[line].group
          BY <1>1, <1>4, GroupArgs
        <4> QED BY <3>2, <4>1, <4>2 DEF Handled
      <3>3. CASE \E j \in DOMAIN table[i].groups : h = table[i].groups[j] /\ MoreDone(i, j)'
        BY <2>6, <3>3 DEF Handled
      <3> QED BY <3>1, <3>2, <3>3
    <2>9. MemberInv'
      <3> SUFFICES ASSUME NEW h \in Group, Handled(h)' PROVE members'[h] = Joined(h)'
        BY DEF MemberInv
      <3>1. Joined(h)' = {} /\ Joined(h) = {}
        BY <2>1, <2>4 DEF Joined
      <3> QED BY <1>1, <2>2, <2>8, <3>1 DEF RInv, MemberInv
    <2>10. StableInv'
      <3> SUFFICES ASSUME image # <<>> PROVE StableInv'
        BY <1>1, <2>1 DEF StableInv
      <3>1. PICK U, UG, G : U = image[1] /\ UG = image[2] /\ G = image[3]
        OBVIOUS
      <3>2. /\ Touched(g) /\ G[g] # None
            /\ Wanted # Automatic => n = G[g]
        BY <1>1, <1>4, <1>5, <3>1, GroupKept
      <3>3. G \in [Group -> Nat \cup {None}] /\ Distinct(G)
        BY <1>1, <3>1 DEF ImageInv
      <3>4. Wanted = Automatic =>
               /\ gid[g] # None => n = gid[g]
               /\ gid[g] = None => \A h \in Group : gid[h] # n
        <4> SUFFICES ASSUME Wanted = Automatic
                     PROVE  /\ gid[g] # None => n = gid[g]
                            /\ gid[g] = None => \A h \in Group : gid[h] # n
          OBVIOUS
        <4>1. n = generate_id(gid, g, MIN_GID, MAX_GID)
          BY <1>5 DEF generate_gid
        <4>2. MIN_GID \in Nat \ {0} /\ MAX_GID \in Nat
          BY MkusersAssumption
        <4> QED BY <1>3, <1>6, <1>8, <4>1, <4>2, GenerateFacts
      <3>5. ASSUME gid[g] = G[g] PROVE gid' = gid
        <4>1. n = gid[g]
          BY <3>2, <3>4, <3>5
        <4> QED BY <1>3, <1>6, <1>8, <4>1
      <3>6. ASSUME cuts = 0
            PROVE  uid' = image'[1] /\ ugid' = image'[2] /\ gid' = image'[3]
        <4>1. uid = U /\ ugid = UG /\ gid = G
          BY <1>1, <3>1, <3>6 DEF RInv, StableInv
        <4> QED BY <2>1, <3>1, <3>5, <4>1
      <3>7. ASSUME cuts <= 1
            PROVE  /\ Distinct(gid')
                   /\ OneOff(gid', G, Group) /\ OneOff(uid', U, User)
                   /\ \A i \in DOMAIN table : NearTo(image[2], table[i])'
        <4>1. /\ Distinct(gid) /\ OneOff(gid, G, Group) /\ OneOff(uid, U, User)
              /\ \A i \in DOMAIN table : NearTo(UG, table[i])
          BY <1>1, <3>1, <3>7 DEF RInv, StableInv
        <4>2. Distinct(gid')
          <5>1. \A h \in Group : h # g => gid[h] # n
            <6>1. CASE Wanted # Automatic
              BY <1>3, <1>6, <3>2, <3>3, <4>1, <6>1, OneOffFacts
            <6>2. CASE Wanted = Automatic
              BY <1>3, <1>6, <3>4, <4>1, <6>2 DEF Distinct
            <6> QED BY <6>1, <6>2
          <5> QED BY <1>3, <1>6, <1>8, <4>1, <5>1, DistinctExcept
        <4>3. OneOff(gid', G, Group)
          <5>1. PICK x \in Group : \A y \in Group : y # x => gid[y] = G[y]
            BY <4>1 DEF OneOff
          <5>2. CASE g = x
            BY <2>2, <5>1, <5>2 DEF OneOff
          <5>3. CASE g # x
            BY <1>6, <3>5, <4>1, <5>1, <5>3
          <5> QED BY <5>2, <5>3
        <4>4. ASSUME NEW i \in DOMAIN table PROVE NearTo(image[2], table[i])'
          <5>1. PICK r : r = table[i]
            OBVIOUS
          <5>2. NearTo(UG, r) /\ r \in Row /\ Kept(U, UG, G, r)
            BY <1>1, <3>1, <4>1, <5>1, PlaceFacts DEF ImageInv
          <5>3. r.group \in Group /\ r.gid \in Int
            BY <5>2, RowFacts
          <5>4. ASSUME r.gid # Automatic PROVE gid'[r.group] \in {None, r.gid}
            <6>1. CASE r.group # g
              BY <2>2, <5>2, <5>3, <5>4, <6>1 DEF NearTo
            <6>2. CASE r.group = g /\ Wanted # Automatic
              BY <2>2, <3>2, <5>2, <5>4, <6>2 DEF Kept
            <6>3. CASE r.group = g /\ Wanted = Automatic
              <7>1. pass # 1
                <8>1. pass = 1 => ~Skipped /\ main[pass] = "fixed_groups" /\ row \in Row
                  BY <1>1, <1>6, SkipFacts, MainFacts
                <8>2. pass = 1 => row.gid \in Int /\ ~(row.gid < 0) /\ Wanted = row.gid
                  BY <1>1, <1>6, <8>1, SkipFacts, RowFacts DEF Wanted
                <8> QED BY <6>3, <8>2 DEF Automatic
              <7>2. GroupDone(i)
                <8>1. r.gid >= 0
                  BY <5>2, <5>3, <5>4 DEF Kept, RowOK, Automatic
                <8>2. Past(1, i)
                  BY <1>6, <7>1 DEF Past
                <8> QED BY <5>1, <8>1, <8>2 DEF GroupDone
              <7>3. gid[g] # None
                BY <1>1, <5>1, <6>3, <7>2 DEF GroupInv
              <7>4. n = gid[g]
                BY <3>4, <6>3, <7>3
              <7> QED BY <2>2, <5>2, <5>4, <6>3, <7>4 DEF NearTo
            <6> QED BY <6>1, <6>2, <6>3
          <5>5. ugid[r.user] \in {None, UG[r.user]}
            <6>1. ~(pass > 3)
              BY <1>6
            <6> QED BY <5>2, <6>1 DEF NearTo
          <5>6. r.uid # Automatic => uid'[r.user] \in {None, r.uid}
            BY <2>1, <5>2 DEF NearTo
          <5>7. NearTo(UG, r)'
            BY <2>1, <5>4, <5>5, <5>6 DEF NearTo
          <5> QED BY <2>1, <3>1, <5>1, <5>7
        <4> QED BY <2>1, <4>1, <4>2, <4>3, <4>4
      <3>8. ASSUME NEW h \in Group, ~Touched(h)' PROVE members'[h] = image'[4][h]
        <4>1. ~Touched(h) /\ h # g
          BY <2>1, <3>2, <3>8 DEF Touched
        <4> QED BY <1>1, <2>1, <2>2, <4>1 DEF RInv, StableInv
      <3> QED BY <1>1, <2>1, <3>1, <3>6, <3>7, <3>8 DEF StableInv
    <2> QED BY <1>2, <2>3, <2>5, <2>7, <2>9, <2>10 DEF RInv
  <1>9. \/ n = None /\ Fail /\ UNCHANGED files
        \/ /\ n # None /\ Continue
           /\ gid' = [gid EXCEPT ![g] = n] /\ members' = [members EXCEPT ![g] = {}]
           /\ UNCHANGED <<uid, ugid>>
    BY <1>4, <1>5, Zenon DEF add_one_group
  <1> QED BY <1>7, <1>8, <1>9

(* add_one_user finds nothing to refuse, unless the ids are used up. *)
LEMMA UserRerun == RInv /\ add_one_user => RInv'
  <1> SUFFICES ASSUME RInv, add_one_user PROVE RInv'
    OBVIOUS
  <1>1. /\ IInv /\ TypeOK /\ PosInv /\ UidInv /\ UserInv /\ ImageInv /\ UserCall
        /\ status = "running"
    BY DEF RInv, IInv, add_one_user, UserCall, AtRow
  <1>2. IInv'
    BY <1>1, UserStep
  <1>3. /\ uid \in [User -> Nat \cup {None}] /\ ugid \in [User -> Nat \cup {None}]
        /\ gid \in [Group -> Nat \cup {None}] /\ members \in [Group -> SUBSET User]
    BY <1>1, FileFacts
  <1>4. PICK r : r = row
    OBVIOUS
  <1>5. PICK n : n = IF r.uid = Automatic THEN generate_uid(r.user) ELSE r.uid
    OBVIOUS
  <1>6. AtRow /\ pass \in 4 .. 5 /\ line \in DOMAIN table /\ r \in Row /\ r = table[line]
    BY <1>1, <1>4, UserArgs
  <1>7. /\ r.user \in User /\ r.group \in Group /\ r.uid \in Int /\ r.gid \in Int
        /\ ToSet(r.groups) \subseteq Group
    BY <1>6, RowFacts
  <1>8. CASE Fail /\ gid' = gid
    BY <1>2, <1>8, FailRerun
  <1>9. CASE /\ check_user_validity(r) /\ n # None /\ r.home # "invalid" /\ Continue
             /\ uid' = [uid EXCEPT ![r.user] = n]
             /\ ugid' = [ugid EXCEPT ![r.user] = gid[r.group]]
             /\ members' = [g \in Group |-> IF g \in ToSet(r.groups)
                                            THEN members[g] \cup {r.user}
                                            ELSE members[g]]
             /\ gid' = gid
    <2>1. /\ table' = table /\ status' = status /\ image' = image /\ cuts' = cuts
          /\ gid' = gid
      BY <1>9 DEF Continue
    <2>2. /\ uid'[r.user] = n /\ \A u \in User : u # r.user => uid'[u] = uid[u]
          /\ ugid'[r.user] = gid[r.group]
          /\ \A u \in User : u # r.user => ugid'[u] = ugid[u]
      BY <1>3, <1>7, <1>9
    <2>3. \A g \in Group : members'[g] = IF g \in ToSet(r.groups)
                                         THEN members[g] \cup {r.user} ELSE members[g]
      BY <1>9
    <2>4. ImageInv'
      BY <1>1, <2>1, ImageSame
    <2>5. ASSUME NEW i \in DOMAIN table
          PROVE  UserDone(i)' <=> UserDone(i) \/ i = line
      <3>1. UserDone(i)' => UserDone(i) \/ i = line
        BY <1>1, <1>6, <1>9, DoneFacts
      <3>2. UserDone(i) \/ i = line => UserDone(i)'
        BY <1>1, <1>6, <1>9, StaysDone
      <3> QED BY <3>1, <3>2
    <2>6. RowOK(r)
      BY <1>9 DEF check_user_validity, RowOK
    <2>7. RowInv'
      BY <1>6, <2>1, <2>5, <2>6 DEF RInv, RowInv
    <2>8. ASSUME NEW i \in DOMAIN table
          PROVE  /\ GroupDone(i)' => GroupDone(i)
                 /\ \A j \in DOMAIN table[i].groups : MoreDone(i, j)' => MoreDone(i, j)
      <3>1. pass # 1 /\ pass # 2 /\ pass # 3
        BY <1>6
      <3>2. GroupDone(i)' => GroupDone(i)
        BY <1>1, <1>6, <1>9, <3>1, DoneFacts
      <3>3. \A j \in DOMAIN table[i].groups : MoreDone(i, j)' => MoreDone(i, j)
        BY <1>1, <1>6, <1>9, <3>1, MoreFacts
      <3> QED BY <3>2, <3>3
    <2>9. MoreInv'
      BY <2>1, <2>8 DEF RInv, MoreInv
    <2>10. MemberInv'
      <3> SUFFICES ASSUME NEW g \in Group, Handled(g)' PROVE members'[g] = Joined(g)'
        BY DEF MemberInv
      <3>1. Handled(g)
        BY <2>1, <2>8 DEF Handled
      <3>2. members[g] = Joined(g)
        BY <1>1, <3>1 DEF RInv, MemberInv
      <3>3. ASSUME NEW u \in User
            PROVE  u \in Joined(g)' <=> \/ u \in Joined(g)
                                        \/ u = r.user /\ g \in ToSet(r.groups)
        BY <1>6, <2>1, <2>5 DEF Joined
      <3>4. Joined(g)' \subseteq User /\ Joined(g) \subseteq User
        BY DEF Joined
      <3>5. ASSUME NEW u \in User
            PROVE  u \in members'[g] <=> \/ u \in Joined(g)
                                         \/ u = r.user /\ g \in ToSet(r.groups)
        BY <2>3, <3>2
      <3>6. members'[g] \subseteq User
        BY <1>7, <2>3, <3>2, <3>4
      <3> QED BY <3>3, <3>4, <3>5, <3>6
    <2>11. StableInv'
      <3> SUFFICES ASSUME image # <<>> PROVE StableInv'
        BY <1>1, <2>1 DEF StableInv
      <3>1. PICK U, UG, G : U = image[1] /\ UG = image[2] /\ G = image[3]
        OBVIOUS
      <3>2. /\ U \in [User -> Nat \cup {None}] /\ UG \in [User -> Nat \cup {None}]
            /\ G \in [Group -> Nat \cup {None}] /\ Distinct(G)
            /\ \A i \in DOMAIN table : Kept(U, UG, G, table[i])
        BY <1>1, <3>1 DEF ImageInv
      <3>3. Kept(U, UG, G, r)
        BY <1>6, <3>2
      <3>4. /\ uid[r.user] # None => n = uid[r.user]
            /\ r.uid # Automatic => n = r.uid
        BY <1>1, <1>5, <1>6, <1>9, UserId
      <3>5. U[r.user] # None /\ UG[r.user] = G[r.group]
        BY <3>3 DEF Kept
      <3>6. ASSUME uid[r.user] = U[r.user] PROVE uid' = uid
        <4>1. n = uid[r.user]
          BY <3>4, <3>5, <3>6
        <4> QED BY <1>3, <1>7, <1>9, <4>1
      <3>7. ASSUME cuts = 0
            PROVE  uid' = image'[1] /\ ugid' = image'[2] /\ gid' = image'[3]
        <4>1. uid = U /\ ugid = UG /\ gid = G
          BY <1>1, <3>1, <3>7 DEF RInv, StableInv
        <4>2. ugid' = ugid
          BY <1>3, <1>7, <1>9, <3>5, <4>1
        <4> QED BY <2>1, <3>1, <3>6, <4>1, <4>2
      <3>8. ASSUME cuts <= 1
            PROVE  /\ Distinct(gid')
                   /\ OneOff(gid', G, Group) /\ OneOff(uid', U, User)
                   /\ \A i \in DOMAIN table : NearTo(image[2], table[i])'
        <4>1. /\ Distinct(gid) /\ OneOff(gid, G, Group) /\ OneOff(uid, U, User)
              /\ \A i \in DOMAIN table : NearTo(UG, table[i])
          BY <1>1, <3>1, <3>8 DEF RInv, StableInv
        <4>2. OneOff(uid', U, User)
          <5>1. PICK x \in User : \A y \in User : y # x => uid[y] = U[y]
            BY <4>1 DEF OneOff
          <5>2. CASE r.user = x
            BY <2>2, <5>1, <5>2 DEF OneOff
          <5>3. CASE r.user # x
            BY <1>7, <3>6, <4>1, <5>1, <5>3
          <5> QED BY <5>2, <5>3
        <4>3. pass' > 3
          <5>1. pass' >= pass /\ pass' \in Int
            BY <1>1, <1>6, <1>9, StaysDone, ContinueFacts
          <5> QED BY <1>6, <5>1
        <4>4. ASSUME NEW i \in DOMAIN table PROVE NearTo(image[2], table[i])'
          <5>1. PICK s : s = table[i]
            OBVIOUS
          <5>2. NearTo(UG, s) /\ s \in Row /\ Kept(U, UG, G, s)
            BY <1>1, <3>2, <4>1, <5>1, PlaceFacts
          <5>3. s.user \in User /\ s.group \in Group /\ s.uid \in Int
            BY <5>2, RowFacts
          <5>4. ASSUME s.uid # Automatic PROVE uid'[s.user] \in {None, s.uid}
            <6>1. CASE s.user # r.user
              BY <2>2, <5>2, <5>3, <5>4, <6>1 DEF NearTo
            <6>2. CASE s.user = r.user /\ uid[r.user] # None
              BY <2>2, <3>4, <5>2, <5>4, <6>2 DEF NearTo
            <6>3. CASE s.user = r.user /\ r.uid # Automatic
              BY <2>2, <3>3, <3>4, <5>2, <5>4, <6>3 DEF Kept
            <6>4. CASE s.user = r.user /\ r.uid = Automatic
              <7>1. pass # 4
                BY <1>1, <1>4, <1>6, <6>4, SkipFacts DEF Automatic
              <7>2. s.uid >= 0
                BY <5>2, <5>3, <5>4 DEF Kept, RowOK, Automatic
              <7>3. Past(4, i)
                BY <1>6, <7>1 DEF Past
              <7>4. UserDone(i)
                BY <5>1, <7>2, <7>3 DEF UserDone
              <7>5. Honoured(s)
                BY <1>1, <5>1, <7>4 DEF UserInv
              <7> QED BY <6>2, <6>4, <7>5 DEF Honoured
            <6> QED BY <6>1, <6>3, <6>4
          <5>5. \/ ugid'[s.user] \in {None, UG[s.user]}
                \/ ugid'[s.user] = gid[s.group]
            <6>1. CASE s.user # r.user
              BY <2>2, <5>2, <5>3, <6>1 DEF NearTo
            <6>2. CASE s.user = r.user
              <7>1. G[s.group] = G[r.group] /\ G[r.group] # None
                BY <3>3, <5>2, <6>2 DEF Kept
              <7>2. s.group = r.group
                BY <1>7, <3>2, <5>3, <7>1 DEF Distinct
              <7> QED BY <2>2, <6>2, <7>2
            <6> QED BY <6>1, <6>2
          <5>6. s.gid # Automatic => gid'[s.group] \in {None, s.gid}
            BY <2>1, <5>2 DEF NearTo
          <5>7. NearTo(UG, s)'
            BY <2>1, <4>3, <5>4, <5>5, <5>6 DEF NearTo
          <5> QED BY <2>1, <3>1, <5>1, <5>7
        <4> QED BY <2>1, <4>1, <4>2, <4>4
      <3>9. ASSUME NEW h \in Group, ~Touched(h)' PROVE members'[h] = image'[4][h]
        <4>1. ~Touched(h) /\ h \notin ToSet(r.groups)
          BY <1>6, <2>1, <3>9 DEF Touched
        <4> QED BY <1>1, <2>1, <2>3, <4>1 DEF RInv, StableInv
      <3> QED BY <1>1, <2>1, <3>1, <3>7, <3>8, <3>9 DEF StableInv
    <2> QED BY <1>2, <2>4, <2>7, <2>9, <2>10, <2>11 DEF RInv
  <1>10. \/ Fail /\ UNCHANGED files
         \/ Fail /\ UNCHANGED <<gid, members>>
         \/ /\ check_user_validity(r) /\ n # None /\ r.home # "invalid" /\ Continue
            /\ uid' = [uid EXCEPT ![r.user] = n]
            /\ ugid' = [ugid EXCEPT ![r.user] = gid[r.group]]
            /\ members' = [g \in Group |-> IF g \in ToSet(r.groups)
                                           THEN members[g] \cup {r.user}
                                           ELSE members[g]]
            /\ gid' = gid
    BY <1>4, <1>5, Zenon DEF add_one_user
  <1>11. (Fail /\ UNCHANGED files) \/ (Fail /\ UNCHANGED <<gid, members>>) => Fail /\ gid' = gid
    BY DEF files
  <1> QED BY <1>8, <1>9, <1>10, <1>11

(* At the end of a run every group of the table has been added anew, and   *)
(* holds just the members the rows wish.                                   *)
LEMMA EndMembers ==
    ASSUME RInv, status = "running", pass > 5 \/ table = <<>>,
           NEW g \in Group, Touched(g)
    PROVE  members[g] = Wished(g) /\ gid[g] # None
  <1>1. /\ IInv /\ TypeOK /\ GroupInv /\ table \in Seq(Row) /\ pass \in Int
        /\ \A i \in DOMAIN table : UserDone(i) /\ RowOK(table[i]) /\ table[i] \in Row
    BY PlaceFacts, AllHonoured DEF RInv, IInv, RowInv
  <1>2. PICK i \in DOMAIN table : g = table[i].group \/ g \in ToSet(table[i].groups)
    BY DEF Touched
  <1>3. pass > 5
    BY <1>2
  <1>4. Handled(g) /\ gid[g] # None
    <2>1. CASE g = table[i].group
      <3>1. table[i].gid >= 0 \/ table[i].gid = Automatic
        BY <1>1, RowFacts DEF RowOK, Automatic
      <3>2. GroupDone(i)
        BY <1>1, <1>3, <3>1 DEF GroupDone, Past
      <3> QED BY <1>1, <2>1, <3>2 DEF Handled, GroupInv
    <2>2. CASE g \in ToSet(table[i].groups)
      <3>1. PICK j \in DOMAIN table[i].groups : g = table[i].groups[j]
        BY <2>2 DEF ToSet
      <3>2. MoreDone(i, j)
        BY <1>1, <1>3 DEF MoreDone
      <3> QED BY <3>1, <3>2 DEF RInv, MoreInv, Handled
    <2> QED BY <1>2, <2>1, <2>2
  <1>5. Joined(g) = Wished(g)
    BY <1>1 DEF Joined, Wished
  <1> QED BY <1>4, <1>5 DEF RInv, MemberInv

(* A complete run leaves an image that honours every row; if no run was    *)
(* interrupted since the last one, it is the same.                         *)
LEMMA FinishRerun ==
    ASSUME RInv, Finish
    PROVE  RInv' /\ (image # <<>> /\ cuts = 0 => image' = image)
  <1>1. /\ uid' = uid /\ ugid' = ugid /\ gid' = gid /\ members' = members
        /\ table' = table /\ pass' = pass /\ line' = line /\ sub' = sub
        /\ cuts' = 0 /\ status = "running" /\ status' = "done"
        /\ image' = <<uid, ugid, gid, members>>
    BY DEF Finish, files, place
  <1>2. pass > 5 \/ table = <<>>
    BY MainFacts DEF Finish
  <1>3. IInv /\ IInv' /\ TypeOK /\ ImageInv
    BY FinishStep DEF RInv, IInv
  <1>4. /\ uid \in [User -> Nat \cup {None}] /\ ugid \in [User -> Nat \cup {None}]
        /\ gid \in [Group -> Nat \cup {None}] /\ members \in [Group -> SUBSET User]
    BY <1>3, FileFacts
  <1>5. Distinct(gid) /\ Distinct(uid)
    BY <1>1, <1>2, <1>3, AllDistinct
  <1>6. /\ image' # <<>> /\ image' = <<image'[1], image'[2], image'[3], image'[4]>>
        /\ image'[1] = uid /\ image'[2] = ugid /\ image'[3] = gid /\ image'[4] = members
    BY <1>1
  <1>7. ASSUME NEW i \in DOMAIN table
        PROVE  Kept(uid, ugid, gid, table[i]) /\ NearTo(ugid, table[i])
    <2>1. PICK r : r = table[i]
      OBVIOUS
    <2>2. UserDone(i) /\ Honoured(r) /\ r \in Row
      BY <1>1, <1>2, <1>3, <2>1, AllHonoured
    <2>3. RowOK(r)
      BY <2>1, <2>2 DEF RInv, RowInv
    <2>4. ToSet(r.groups) \subseteq Group /\ r.user \in User
      BY <2>2, RowFacts
    <2>5. ASSUME NEW g \in ToSet(r.groups) PROVE gid[g] # None
      <3>1. Touched(g) /\ g \in Group
        BY <2>1, <2>4 DEF Touched
      <3> QED BY <1>1, <1>2, <3>1, EndMembers
    <2>6. r.uid # Automatic => uid[r.user] = r.uid
      BY <2>2 DEF Honoured
    <2> QED BY <2>1, <2>2, <2>3, <2>5, <2>6 DEF Kept, Honoured, NearTo
  <1>8. ASSUME NEW g \in Group PROVE Touched(g) => members[g] = Wished(g)
    BY <1>1, <1>2, EndMembers
  <1>9. \A g \in Group : Wished(g)' = Wished(g) /\ (Touched(g)' <=> Touched(g))
    BY <1>1 DEF Wished, Touched
  <1>10. ImageInv'
    BY <1>1, <1>4, <1>5, <1>6, <1>7, <1>8, <1>9 DEF ImageInv
  <1>11. RowInv' /\ MoreInv'
    BY <1>1 DEF RInv, RowInv, MoreInv, UserDone, MoreDone, Past
  <1>12. MemberInv'
    <2>1. ASSUME NEW g \in Group
          PROVE  (Handled(g)' <=> Handled(g)) /\ Joined(g)' = Joined(g)
      BY <1>1 DEF Handled, Joined, GroupDone, UserDone, MoreDone, Past
    <2> QED BY <1>1, <2>1 DEF RInv, MemberInv
  <1>13. StableInv'
    <2>1. OneOff(gid, gid, Group) /\ OneOff(uid, uid, User)
      BY MkusersAssumption DEF OneOff
    <2>2. ASSUME NEW i \in DOMAIN table PROVE NearTo(image[2], table[i])'
      <3>1. PICK UG, r : UG = ugid /\ r = table[i]
        OBVIOUS
      <3>2. NearTo(UG, r)
        BY <1>7, <3>1
      <3>3. NearTo(UG, r)'
        BY <1>1, <3>2 DEF NearTo
      <3> QED BY <1>1, <1>6, <3>1, <3>3
    <2> QED BY <1>1, <1>5, <1>6, <2>1, <2>2 DEF StableInv
  <1>14. ASSUME image # <<>>, cuts = 0 PROVE image' = image
    <2>1. uid = image[1] /\ ugid = image[2] /\ gid = image[3]
      BY <1>1, <1>14 DEF RInv, StableInv
    <2>2. ASSUME NEW g \in Group PROVE members[g] = image[4][g]
      <3>1. CASE Touched(g)
        BY <1>3, <1>8, <1>14, <3>1 DEF ImageInv
      <3>2. CASE ~Touched(g)
        BY <1>1, <1>14, <3>2 DEF RInv, StableInv
      <3> QED BY <3>1, <3>2
    <2>3. /\ image[4] \in [Group -> SUBSET User]
          /\ image = <<image[1], image[2], image[3], image[4]>>
      BY <1>3, <1>14 DEF ImageInv
    <2>4. members = image[4]
      BY <1>4, <2>2, <2>3
    <2> QED BY <1>1, <2>1, <2>3, <2>4
  <1> QED BY <1>3, <1>10, <1>11, <1>12, <1>13, <1>14 DEF RInv

(* At the start of a run nothing has been done. *)
LEMMA StartRerun ==
    ASSUME RInv, Again, IInv'
    PROVE  ImageInv' /\ RowInv' /\ MoreInv' /\ MemberInv'
  <1>1. table' = table /\ image' = image /\ pass' = 1 /\ line' = 1 /\ sub' = 1
    BY DEF Again
  <1>2. TypeOK
    BY DEF RInv, IInv
  <1>3. ASSUME NEW i \in DOMAIN table
        PROVE  ~GroupDone(i)' /\ ~UserDone(i)' /\ \A j : ~MoreDone(i, j)'
    <2>1. i \in Nat \ {0}
      BY <1>2, PlaceFacts
    <2> QED BY <1>1, <2>1 DEF GroupDone, UserDone, MoreDone, Past
  <1>4. \A g : ~Handled(g)'
    BY <1>1, <1>3 DEF Handled
  <1>5. RowInv' /\ MoreInv' /\ MemberInv'
    BY <1>1, <1>3, <1>4 DEF RowInv, MoreInv, MemberInv
  <1> QED BY <1>1, <1>5, ImageSame DEF RInv

(* The next run starts from the files of the last complete one. *)
LEMMA RerunRerun == RInv /\ Rerun => RInv'
  <1> SUFFICES ASSUME RInv, Rerun PROVE RInv'
    OBVIOUS
  <1>1. /\ uid' = uid /\ ugid' = ugid /\ gid' = gid /\ members' = members
        /\ table' = table /\ image' = image /\ cuts' = cuts
        /\ status = "done" /\ status' = "running" /\ Again
    BY DEF Rerun, Again, files
  <1>2. IInv'
    BY RerunStep DEF RInv
  <1>3. /\ image # <<>> /\ cuts = 0
        /\ uid = image[1] /\ ugid = image[2] /\ gid = image[3]
    BY <1>1 DEF RInv, StableInv
  <1>4. ASSUME NEW i \in DOMAIN table PROVE NearTo(image[2], table[i])'
    <2>1. PICK UG, r : UG = image[2] /\ r = table[i]
      OBVIOUS
    <2>2. NearTo(UG, r)
      BY <1>1, <1>3, <2>1 DEF RInv, StableInv
    <2>3. NearTo(UG, r)'
      BY <1>1, <1>3, <2>1, <2>2 DEF NearTo
    <2> QED BY <1>1, <2>1, <2>3
  <1>5. StableInv'
    BY <1>1, <1>3, <1>4 DEF RInv, StableInv, Touched
  <1> QED BY <1>1, <1>2, <1>5, StartRerun DEF RInv

(* The first interruption after a complete run finds the files of that run *)
(* with one group or one user missing at most.                             *)
LEMMA InterruptedRerun == RInv /\ Interrupted => RInv'
  <1> SUFFICES ASSUME RInv, Interrupted PROVE RInv'
    OBVIOUS
  <1>1. /\ IInv /\ TypeOK /\ PosInv /\ ImageInv /\ Again /\ cuts' = cuts + 1
        /\ status = "running" /\ status' = "running" /\ table' = table /\ image' = image
    BY DEF RInv, IInv, Interrupted, Again
  <1>2. IInv'
    BY <1>1, InterruptedStep
  <1>3. /\ uid \in [User -> Nat \cup {None}] /\ ugid \in [User -> Nat \cup {None}]
        /\ gid \in [Group -> Nat \cup {None}] /\ members \in [Group -> SUBSET User]
    BY <1>1, FileFacts
  <1>4. cuts \in Nat /\ cuts' # 0
    BY <1>1 DEF TypeOK
  <1>5. ASSUME image # <<>> PROVE StableInv'
    <2>1. PICK U, UG, G : U = image[1] /\ UG = image[2] /\ G = image[3]
      OBVIOUS
    <2>2. /\ U \in [User -> Nat \cup {None}] /\ UG \in [User -> Nat \cup {None}]
          /\ G \in [Group -> Nat \cup {None}] /\ Distinct(G)
          /\ \A i \in DOMAIN table : Kept(U, UG, G, table[i]) /\ table[i] \in Row
      BY <1>1, <1>5, <2>1, PlaceFacts DEF ImageInv
    <2>3. ASSUME cuts = 0, NEW x \in Group, NEW v \in User,
                 gid' \in {gid, [gid EXCEPT ![x] = None]},
                 uid' \in {uid, [uid EXCEPT ![v] = None]},
                 ugid' \in {ugid, [ugid EXCEPT ![v] = None]}
          PROVE  /\ Distinct(gid')
                 /\ OneOff(gid', G, Group) /\ OneOff(uid', U, User)
                 /\ \A i \in DOMAIN table : NearTo(image[2], table[i])'
      <3>1. uid = U /\ ugid = UG /\ gid = G
        BY <1>1, <1>5, <2>1, <2>3 DEF RInv, StableInv
      <3>2. Distinct(gid')
        BY <2>2, <2>3, <3>1, DistinctExcept
      <3>3. /\ \A g \in Group : gid'[g] \in {None, G[g]} /\ (g # x => gid'[g] = G[g])
            /\ \A u \in User : uid'[u] \in {None, U[u]} /\ (u # v => uid'[u] = U[u])
            /\ \A u \in User : ugid'[u] \in {None, UG[u]}
        BY <2>2, <2>3, <3>1
      <3>4. OneOff(gid', G, Group) /\ OneOff(uid', U, User)
        BY <3>3 DEF OneOff
      <3>5. ASSUME NEW i \in DOMAIN table PROVE NearTo(image[2], table[i])'
        <4>1. PICK r : r = table[i]
          OBVIOUS
        <4>2. Kept(U, UG, G, r) /\ r.user \in User /\ r.group \in Group
          BY <2>2, <4>1, RowFacts
        <4>3. NearTo(UG, r)'
          BY <3>3, <4>2 DEF NearTo, Kept
        <4> QED BY <1>1, <2>1, <4>1, <4>3
      <3> QED BY <3>2, <3>4, <3>5
    <2>4. "root" \in User /\ "root" \in Group
      BY MkusersAssumption
    <2>5. ASSUME \A h \in Group : ~Touched(h) => members'[h] = members[h],
                 cuts = 0 => /\ Distinct(gid')
                             /\ OneOff(gid', G, Group) /\ OneOff(uid', U, User)
                             /\ \A i \in DOMAIN table : NearTo(image[2], table[i])'
          PROVE  StableInv'
      <3>1. \A h \in Group : ~Touched(h)' => members'[h] = image'[4][h]
        BY <1>1, <1>5, <2>5 DEF RInv, StableInv, Touched
      <3>2. cuts' <= 1 => cuts = 0
        BY <1>1, <1>4
      <3> QED BY <1>1, <1>4, <2>1, <2>5, <3>1, <3>2 DEF StableInv
    <2>6. CASE UNCHANGED files
      <3>1. uid' = uid /\ ugid' = ugid /\ gid' = gid /\ members' = members
        BY <2>6 DEF files
      <3> QED BY <2>3, <2>4, <2>5, <3>1
    <2>7. CASE /\ GroupCall
               /\ gid' = [gid EXCEPT ![Name] = None]
               /\ members' = [members EXCEPT ![Name] = {}]
               /\ UNCHANGED <<uid, ugid>>
      <3>1. PICK g : g = Name
        OBVIOUS
      <3>2. g \in Group /\ Touched(g)
        BY <1>5, <2>7, <3>1, GroupKept
      <3>3. \A h \in Group : ~Touched(h) => members'[h] = members[h]
        BY <1>3, <2>7, <3>1, <3>2
      <3>4. gid' = [gid EXCEPT ![g] = None] /\ uid' = uid /\ ugid' = ugid
        BY <2>7, <3>1
      <3> QED BY <2>3, <2>4, <2>5, <3>2, <3>3, <3>4
    <2>8. CASE /\ UserCall /\ check_user_validity(row)
               /\ uid' = [uid EXCEPT ![row.user] = None]
               /\ ugid' = [ugid EXCEPT ![row.user] = None]
               /\ UNCHANGED <<gid, members>>
      <3>1. PICK u : u = row.user
        OBVIOUS
      <3>2. u \in User
        BY <1>1, <2>8, <3>1, UserArgs, RowFacts
      <3>3. /\ uid' = [uid EXCEPT ![u] = None] /\ ugid' = [ugid EXCEPT ![u] = None]
            /\ gid' = gid /\ members' = members
        BY <2>8, <3>1
      <3> QED BY <2>3, <2>4, <2>5, <3>2, <3>3
    <2> QED BY <2>6, <2>7, <2>8 DEF Interrupted
  <1>6. ASSUME image = <<>> PROVE StableInv'
    BY <1>1, <1>6 DEF StableInv
  <1> QED BY <1>1, <1>2, <1>5, <1>6, StartRerun DEF RInv

(* There is no complete run at first. *)
LEMMA InitRerun == Init => RInv
  <1> SUFFICES ASSUME Init PROVE RInv
    OBVIOUS
  <1>1. IInv /\ TypeOK
    BY InitStep DEF IInv
  <1>2. pass = 1 /\ line = 1 /\ sub = 1 /\ status = "running" /\ image = <<>>
    BY DEF Init
  <1>3. ASSUME NEW i \in DOMAIN table
        PROVE  ~GroupDone(i) /\ ~UserDone(i) /\ \A j : ~MoreDone(i, j)
    <2>1. i \in Nat \ {0}
      BY <1>1, PlaceFacts
    <2> QED BY <1>2, <2>1 DEF GroupDone, UserDone, MoreDone, Past
  <1>4. \A g : ~Handled(g)
    BY <1>3 DEF Handled
  <1>5. RowInv /\ MoreInv /\ MemberInv
    BY <1>3, <1>4 DEF RowInv, MoreInv, MemberInv
  <1>6. ImageInv /\ StableInv
    BY <1>2 DEF ImageInv, StableInv
  <1> QED BY <1>1, <1>5, <1>6 DEF RInv

(* RInv is inductive: one case per action. *)
LEMMA NextRerun == RInv /\ [Next]_vars => RInv'
  <1> SUFFICES ASSUME RInv, [Next]_vars PROVE RInv'
    OBVIOUS
  <1>1. CASE UNCHANGED vars
    <2>1. /\ uid' = uid /\ ugid' = ugid /\ gid' = gid /\ members' = members
          /\ table' = table /\ pass' = pass /\ line' = line /\ sub' = sub
          /\ cuts' = cuts /\ status' = status /\ image' = image
      BY <1>1 DEF vars, files, place
    <2>2. IInv'
      BY <1>1, NextStep DEF RInv
    <2>3. ImageInv'
      BY <2>1, ImageSame DEF RInv
    <2>4. RowInv' /\ MoreInv'
      BY <2>1 DEF RInv, RowInv, MoreInv, UserDone, MoreDone, Past
    <2>5. MemberInv'
      <3>1. ASSUME NEW g \in Group
            PROVE  (Handled(g)' <=> Handled(g)) /\ Joined(g)' = Joined(g)
        BY <2>1 DEF Handled, Joined, GroupDone, UserDone, MoreDone, Past
      <3> QED BY <2>1, <3>1 DEF RInv, MemberInv
    <2>6. StableInv'
      BY <2>1 DEF RInv, StableInv, NearTo, Touched
    <2> QED BY <2>2, <2>3, <2>4, <2>5, <2>6 DEF RInv
  <1>2. CASE Next
    BY <1>2, SkipRerun, GroupRerun, UserRerun, FinishRerun, RerunRerun, InterruptedRerun
    DEF Next
  <1> QED BY <1>1, <1>2

(* RInv is an invariant of the script and of its runs. *)
LEMMA RerunInvariance == Spec => []RInv
  BY InitRerun, NextRerun, PTL DEF Spec
--------------------------------------------------------------------------------
(* What RerunStable says of a step. *)
StableStep ==
    image # <<>> =>
        /\ cuts = 0 => image' = image /\ status' # "failed"
        /\ cuts = 1 /\ IdLeft(gid, MIN_GID, MAX_GID) /\ IdLeft(uid, MIN_UID, MAX_UID)
              => status' # "failed"

(* Once a run of main has been complete, a further one repeats it: every   *)
(* check of check_user_validity passes again, every id is found in the     *)
(* files and kept, and every group ends with the same members, though each *)
(* is removed and written anew.  The run after one interruption passes the *)
(* checks as well, and fails only if an id range is used up.               *)
THEOREM StableTheorem == Spec => RerunStable
  <1>1. RInv /\ [Next]_vars => [StableStep]_vars
    <2> SUFFICES ASSUME RInv, Next, image # <<>>
                 PROVE  /\ cuts = 0 => image' = image /\ status' # "failed"
                        /\ /\ cuts = 1
                           /\ IdLeft(gid, MIN_GID, MAX_GID)
                           /\ IdLeft(uid, MIN_UID, MAX_UID)
                           => status' # "failed"
      BY DEF StableStep
    <2>1. CASE Skip
      BY <2>1 DEF Skip, AtRow, Continue
    <2>2. CASE add_one_group
      <3>1. image' = image
        BY <2>2, Zenon DEF add_one_group, Fail, Continue
      <3> QED BY <2>2, <3>1, GroupSucceeds
    <2>3. CASE add_one_user
      <3>1. image' = image
        BY <2>3, Zenon DEF add_one_user, Fail, Continue
      <3> QED BY <2>3, <3>1, UserSucceeds
    <2>4. CASE Finish
      BY <2>4, FinishRerun DEF Finish
    <2>5. CASE Rerun \/ Interrupted
      BY <2>5 DEF Rerun, Interrupted, Again
    <2> QED BY <2>1, <2>2, <2>3, <2>4, <2>5 DEF Next
  <1>2. [StableStep]_vars =>
          [image # <<>> =>
              /\ cuts = 0 => image' = image /\ status' # "failed"
              /\ cuts = 1 /\ IdLeft(gid, MIN_GID, MAX_GID) /\ IdLeft(uid, MIN_UID, MAX_UID)
                    => status' # "failed"]_vars
    BY DEF StableStep
  <1> QED BY <1>1, <1>2, RerunInvariance, PTL DEF Spec, RerunStable
================================================================================
