-------------------------------- MODULE Mkusers --------------------------------
(***************************************************************************)
(* The script that adds the users and groups the packages ask for to       *)
(* /etc/passwd, /etc/shadow, /etc/group and /etc/gshadow of the target     *)
(* (support/scripts/mkusers).  It runs once for every filesystem image, on *)
(* a target directory that already holds what earlier runs wrote, and may  *)
(* be interrupted.  passwd and shadow hold the same users, group and       *)
(* gshadow the same groups: each pair is one table here.                   *)
(***************************************************************************)
EXTENDS Integers, Sequences, SequencesExt, FiniteSetsExt

CONSTANTS
    User, Group,        \* names
    MIN_UID, MAX_UID, MIN_GID, MAX_GID,
    Tables,             \* the tables of users to consider
    Skeletons,          \* the target directories to start from
    MaxRuns             \* bound: runs of the script, interrupted ones included

Automatic == -1        \* id to be chosen by the script
None == -2        \* no such user or group, no id left

Row == [user : User, uid : Int, group : Group, gid : Int, groups : Seq(Group),
        home : {"none", "absolute", "invalid"}]

Skeleton == [uid : [User -> Nat \cup {None}], ugid : [User -> Nat \cup {None}],
             gid : [Group -> Nat \cup {None}], members : [Group -> SUBSET User]]

ASSUME MkusersAssumption ==
    /\ "root" \in User \cap Group
    /\ {MIN_UID, MIN_GID} \subseteq Nat \ {0} /\ {MAX_UID, MAX_GID} \subseteq Nat
    /\ Tables \subseteq Seq(Row) /\ Skeletons \subseteq Skeleton
    /\ MaxRuns \in Nat \ {0}

(* No two entries of a target directory share an id, and root's is 0.  A   *)
(* row asks for a uid or for an automatic one; the script passes over any  *)
(* other row without a word.                                               *)
Distinct(ids) == \A x, y \in DOMAIN ids : x # y /\ ids[x] # None => ids[x] # ids[y]

ASSUME InputAssumption ==
    /\ \A s \in Skeletons : Distinct(s.uid) /\ Distinct(s.gid) /\ s.uid["root"] = 0
    /\ \A t \in Tables : \A i \in DOMAIN t : t[i].uid >= Automatic

VARIABLES
    table,      \* USERS_TABLE
    uid, ugid,  \* passwd: the id of each user and that of its group
    gid,        \* group: the id of each group
    members,    \* group: its additional members
    pass,       \* which of the loops of main is running
    line,       \* the row it is at
    sub,        \* the additional group of the row it is at
    status,     \* "running", "done" or "failed"
    image,      \* the files after the last complete run
    cuts,       \* runs interrupted since then
    runs        \* runs begun so far

files == <<uid, ugid, gid, members>>
place == <<pass, line, sub>>
vars == <<table, files, place, status, image, cuts, runs>>
--------------------------------------------------------------------------------
(* Mutant: the additional groups are added last. *)
mainAdditionalLast ==
    <<"fixed_groups", "auto_groups", "fixed_users", "auto_users", "more_groups">>

(* main: five passes over the table. *)
main == <<"fixed_groups", "auto_groups", "more_groups", "fixed_users", "auto_users">>

row == table[line]

(* The rows a pass goes past. *)
Skipped ==
    CASE main[pass] = "fixed_groups" -> row.gid < 0
      [] main[pass] = "auto_groups"  -> row.gid # Automatic
      [] main[pass] = "more_groups"  -> row.groups = <<>>
      [] main[pass] = "fixed_users"  -> row.uid < 0
      [] main[pass] = "auto_users"   -> row.uid # Automatic

(* The id a name has, or else the lowest one that is free. *)
generate_id(ids, name, lo, hi) ==
    LET free == {n \in lo .. hi : \A x \in DOMAIN ids : ids[x] # n}
    IN  IF ids[name] # None THEN ids[name]
        ELSE IF free = {} THEN None ELSE Min(free)

generate_gid(g) == generate_id(gid, g, MIN_GID, MAX_GID)
generate_uid(u) == generate_id(uid, u, MIN_UID, MAX_UID)

(* get_group: the names of the groups with an id. *)
get_group(n) == {g \in Group : gid[g] = n}
get_username(n) == {u \in User : uid[u] = n}

(* Mutant: the gid is not looked for among the other groups. *)
check_user_validityLax(r) ==
    /\ r.user # "root"
    /\ r.gid >= Automatic /\ r.gid # 0
    /\ r.gid # Automatic => gid[r.group] \in {None, r.gid}
    /\ r.uid >= Automatic /\ r.uid # 0
    /\ r.uid # Automatic =>
        /\ get_username(r.uid) \subseteq {r.user}
        /\ uid[r.user] \in {None, r.uid}

(* Mutant: a user that exists is refused. *)
check_user_validityOnce(r) ==
    /\ r.user # "root" /\ uid[r.user] = None
    /\ r.gid >= Automatic /\ r.gid # 0
    /\ r.gid # Automatic =>
        /\ get_group(r.gid) \subseteq {r.group}
        /\ gid[r.group] \in {None, r.gid}
    /\ r.uid >= Automatic /\ r.uid # 0
    /\ r.uid # Automatic => get_username(r.uid) \subseteq {r.user}

(* What check_user_validity lets pass. *)
check_user_validity(r) ==
    /\ r.user # "root"
    /\ r.gid >= Automatic /\ r.gid # 0
    /\ r.gid # Automatic =>
        /\ get_group(r.gid) \subseteq {r.group}
        /\ gid[r.group] \in {None, r.gid}
        /\ ugid[r.user] \in {None, r.gid}
    /\ r.uid >= Automatic /\ r.uid # 0
    /\ r.uid # Automatic =>
        /\ get_username(r.uid) \subseteq {r.user}
        /\ uid[r.user] \in {None, r.uid}
    /\ ugid[r.user] # None => get_group(ugid[r.user]) \subseteq {r.group}
--------------------------------------------------------------------------------
Init ==
    /\ table \in Tables
    /\ \E s \in Skeletons : /\ uid = s.uid /\ ugid = s.ugid
                            /\ gid = s.gid /\ members = s.members
    /\ pass = 1 /\ line = 1 /\ sub = 1 /\ status = "running"
    /\ image = <<>> /\ cuts = 0 /\ runs = 1

AtRow == status = "running" /\ pass <= Len(main) /\ line <= Len(table)

GroupPass == {"fixed_groups", "auto_groups", "more_groups"}
GroupCall == AtRow /\ main[pass] \in GroupPass /\ ~Skipped
UserCall == AtRow /\ main[pass] \notin GroupPass /\ ~Skipped

(* The arguments of add_one_group. *)
Name == IF main[pass] = "more_groups" THEN row.groups[sub] ELSE row.group
Wanted == IF main[pass] = "more_groups" THEN Automatic ELSE row.gid

Fail == status' = "failed" /\ UNCHANGED <<table, place, image, cuts, runs>>

(* On to the next additional group, to the next row, or to the next pass. *)
Continue ==
    /\ IF main[pass] = "more_groups" /\ sub < Len(row.groups)
       THEN sub' = sub + 1 /\ UNCHANGED <<pass, line>>
       ELSE /\ sub' = 1
            /\ IF line < Len(table) THEN line' = line + 1 /\ UNCHANGED pass
                                    ELSE line' = 1 /\ pass' = pass + 1
    /\ UNCHANGED <<table, status, image, cuts, runs>>

Skip == AtRow /\ Skipped /\ Continue /\ UNCHANGED files

(* Mutant: no gid is generated. *)
add_one_groupVerbatim ==
    /\ GroupCall /\ Continue
    /\ gid' = [gid EXCEPT ![Name] = Wanted]
    /\ members' = [members EXCEPT ![Name] = {}]
    /\ UNCHANGED <<uid, ugid>>

(* A group that exists is removed first, with its members. *)
add_one_group ==
    /\ GroupCall
    /\ LET id == IF Wanted = Automatic THEN generate_gid(Name) ELSE Wanted
       IN  \/ id = None /\ Fail /\ UNCHANGED files
           \/ /\ id # None /\ Continue
              /\ gid' = [gid EXCEPT ![Name] = id]
              /\ members' = [members EXCEPT ![Name] = {}]
              /\ UNCHANGED <<uid, ugid>>

(* The home directory is looked at after a previous instance of the user   *)
(* has been removed.                                                       *)
add_one_user ==
    /\ UserCall
    /\ LET r == row
           id == IF r.uid = Automatic THEN generate_uid(r.user) ELSE r.uid
           ok == check_user_validity(r) /\ id # None
       IN  \/ ~ok /\ Fail /\ UNCHANGED files
           \/ /\ ok /\ r.home = "invalid" /\ Fail
              /\ uid' = [uid EXCEPT ![r.user] = None]
              /\ ugid' = [ugid EXCEPT ![r.user] = None]
              /\ UNCHANGED <<gid, members>>
           \/ /\ ok /\ r.home # "invalid" /\ Continue
              /\ uid' = [uid EXCEPT ![r.user] = id]
              /\ ugid' = [ugid EXCEPT ![r.user] = gid[r.group]]
              /\ members' = [g \in Group |-> IF g \in ToSet(r.groups)
                                             THEN members[g] \cup {r.user}
                                             ELSE members[g]]
              /\ UNCHANGED gid

Finish ==
    /\ status = "running" /\ (pass > Len(main) \/ table = <<>>)
    /\ status' = "done" /\ image' = files /\ cuts' = 0
    /\ UNCHANGED <<table, files, place, runs>>

(* The script is run again, for another image or because the last run was  *)
(* interrupted: between two calls, or in one that had removed the old      *)
(* entry and not yet written the new one.                                  *)
Again ==
    /\ runs < MaxRuns /\ runs' = runs + 1
    /\ status' = "running" /\ pass' = 1 /\ line' = 1 /\ sub' = 1
    /\ UNCHANGED <<table, image>>

Rerun == status = "done" /\ Again /\ UNCHANGED <<files, cuts>>

Interrupted ==
    /\ status = "running" /\ Again /\ cuts' = cuts + 1
    /\ \/ UNCHANGED files
       \/ /\ GroupCall
          /\ gid' = [gid EXCEPT ![Name] = None]
          /\ members' = [members EXCEPT ![Name] = {}]
          /\ UNCHANGED <<uid, ugid>>
       \/ /\ UserCall /\ check_user_validity(row)
          /\ uid' = [uid EXCEPT ![row.user] = None]
          /\ ugid' = [ugid EXCEPT ![row.user] = None]
          /\ UNCHANGED <<gid, members>>

Next == Skip \/ add_one_group \/ add_one_user \/ Finish \/ Rerun \/ Interrupted

Spec == Init /\ [][Next]_vars
--------------------------------------------------------------------------------
(* The files hold names and numbers only: no id that is still to be chosen. *)
TypeOK ==
    /\ table \in Seq(Row)
    /\ [uid |-> uid, ugid |-> ugid, gid |-> gid, members |-> members] \in Skeleton
    /\ pass \in 1 .. Len(main) + 1 /\ {line, sub} \subseteq Nat \ {0}
    /\ status \in {"running", "done", "failed"}
    /\ runs \in 1 .. MaxRuns /\ cuts \in Nat

(* No two groups and no two users share an id after a run that succeeds,   *)
(* though the passes that add groups do not look for a gid in use.         *)
UniqueIds ==
    status = "done" => Distinct(gid) /\ Distinct(uid)

(* After a run that succeeds every row of the table is in the files: the   *)
(* user with the uid and in the group with the gid that some row asks for, *)
(* even if another row leaves the choice to the script ("we ensure the     *)
(* specified gid is used"), and a member of its additional groups.         *)
TableHonoured ==
    status = "done" =>
        \A i \in DOMAIN table :
            LET r == table[i]
            IN  /\ uid[r.user] \in IF r.uid = Automatic THEN Nat \ {0} ELSE {r.uid}
                /\ gid[r.group] \in IF r.gid = Automatic THEN Nat ELSE {r.gid}
                /\ ugid[r.user] = gid[r.group]
                /\ \A g \in ToSet(r.groups) : r.user \in members[g]

(* A run for a further image neither fails nor changes an id or a          *)
(* membership the last complete run wrote.  The run after an interruption  *)
(* does not fail either, except for want of an automatic id.  (It may give *)
(* a group or a user another automatic id: the interrupted run may have    *)
(* removed the entry that kept the old one.)                               *)
IdLeft(ids, lo, hi) == \E n \in lo .. hi : \A x \in DOMAIN ids : ids[x] # n

RerunStable ==
    [][image # <<>> =>
          /\ cuts = 0 => image' = image /\ status' # "failed"
          /\ cuts = 1 /\ IdLeft(gid, MIN_GID, MAX_GID) /\ IdLeft(uid, MIN_UID, MAX_UID)
                => status' # "failed"]_vars

================================================================================
