----------------------------- MODULE Hwinfo_proofs -----------------------------
(***************************************************************************)
(* The two copies of the hardware information implement BootStore and      *)
(* survive the loss of a block, for regions of any size, any set of flags  *)
(* and any number of updates and of blocks that decay one after the other. *)
(***************************************************************************)
EXTENDS Hwinfo, WellFoundedInduction, TLAPS

(* A set of block numbers has a least element, and Min is it. *)
LEMMA MinFacts ==
    ASSUME NEW S \in SUBSET Nat, S # {}
    PROVE  Min(S) \in S /\ \A x \in S : Min(S) <= x
  <1>1. \E m \in S : \A y \in S : ~(y < m)
    <2> DEFINE Less == {ss \in Nat \X Nat : ss[1] < ss[2]}
    <2>1. IsWellFoundedOn(Less, Nat)
      BY NatLessThanWellFounded, Zenon DEF OpToRel
    <2>2. PICK m \in S : \A y \in S : ~(<<y, m>> \in Less)
      BY <2>1, WFMin
    <2>3. ASSUME NEW y \in S, y < m PROVE <<y, m>> \in Less
      BY <2>3
    <2> QED BY <2>2, <2>3, Zenon
  <1>2. \E m \in S : \A y \in S : m <= y
    BY <1>1
  <1> QED BY <1>2 DEF Min

--------------------------------------------------------------------------------
(* What a boot would find, for any condition st and content d of the blocks. *)

Condition == [Block -> {"good", "bad"} \cup EccStates]
Content == [Block -> Record \cup {Garbage}]

(* The copy in region c, as long as its block is good. *)
HeldIn(st, d, c) ==
    LET b == Seek(st, c) IN IF st[b] = "good" THEN d[b] ELSE Garbage

(* The two regions divide the blocks. *)
LEMMA Regions ==
    /\ SeekStart(1) = 0 /\ SeekStart(2) = R
    /\ Region(1) = 0 .. R - 1 /\ Region(2) = R .. 2 * R - 1
    /\ Block = Region(1) \cup Region(2) /\ Block \subseteq Nat
    /\ \A b \in Block : b \in Region(1) <=> b < R
    /\ \A b \in Block : ~(b \in Region(1) /\ b \in Region(2))
    /\ \A c \in Copy : 3 - c \in Copy /\ 3 - c # c /\ 3 - (3 - c) = c
  BY HwinfoAssumption DEF SeekStart, Region, Block, Copy

(* The scan ends in the region, on the first block that passed the check,  *)
(* and on one that did not pass only if none did.                          *)
LEMMA SeekFacts ==
    ASSUME NEW st \in Condition, NEW c \in Copy
    PROVE  /\ Seek(st, c) \in Region(c) /\ Seek(st, c) \in Block
           /\ \A b \in Region(c) : st[b] = "good" =>
                 st[Seek(st, c)] = "good" /\ Seek(st, c) <= b
           /\ st[Seek(st, c)] # "good" => Seek(st, c) = SeekStart(c)
  <1> DEFINE usable == {b \in Region(c) : st[b] = "good"}
  <1>1. Region(c) \subseteq Block /\ SeekStart(c) \in Region(c) /\ usable \in SUBSET Nat
    BY Regions, HwinfoAssumption DEF Copy
  <1>2. CASE usable = {}
    BY <1>1, <1>2 DEF Seek
  <1>3. CASE usable # {}
    <2>1. Min(usable) \in usable /\ \A b \in usable : Min(usable) <= b
      <3> HIDE DEF usable
      <3> QED BY <1>1, <1>3, MinFacts
    <2> QED BY <1>1, <1>3, <2>1 DEF Seek
  <1> QED BY <1>2, <1>3

(* The scan of a region depends on the blocks of the region only. *)
LEMMA SeekLocal ==
    ASSUME NEW st, NEW st2, NEW c, \A b \in Region(c) : st2[b] = st[b]
    PROVE  Seek(st2, c) = Seek(st, c)
  <1>1. {b \in Region(c) : st2[b] = "good"} = {b \in Region(c) : st[b] = "good"}
    OBVIOUS
  <1> QED BY <1>1 DEF Seek

(* Loading from a good block gives its content. *)
LEMMA LoadGood ==
    ASSUME NEW st \in Condition, NEW d, NEW b \in Block, st[b] = "good"
    PROVE  Load(st, d, b) = d[b]
  <1> DEFINE readable == {x \in Block : x >= b /\ st[x] \notin {"bad", "ecc_first"}}
  <1>1. b \in readable /\ readable \in SUBSET Nat /\ \A x \in readable : b <= x
    BY Regions
  <1>2. Min(readable) \in readable /\ Min(readable) <= b
    <2> HIDE DEF readable
    <2> QED BY <1>1, MinFacts
  <1>3. Min(readable) = b
    <2>1. Min(readable) \in Nat /\ b \in Nat /\ b <= Min(readable)
      BY <1>1, <1>2, Regions
    <2> HIDE DEF readable
    <2> QED BY <1>2, <2>1
  <1> QED BY <1>1, <1>3 DEF Load

(* Loading gives a record, or content with a wrong checksum. *)
LEMMA LoadType ==
    ASSUME NEW st \in Condition, NEW d \in Content, NEW b \in Block
    PROVE  Load(st, d, b) \in Record \cup {Garbage}
  <1> DEFINE readable == {x \in Block : x >= b /\ st[x] \notin {"bad", "ecc_first"}}
  <1>1. CASE readable = {}
    BY <1>1 DEF Load
  <1>2. CASE readable # {}
    <2>1. readable \in SUBSET Nat
      BY Regions
    <2>2. Min(readable) \in readable
      <3> HIDE DEF readable
      <3> QED BY <1>2, <2>1, MinFacts
    <2> QED BY <2>2 DEF Load, Content
  <1> QED BY <1>1, <1>2

(* Of two contents the valid one is kept, and of two valid ones one that   *)
(* is not older than the other.                                            *)
LEMMA SelectFacts ==
    ASSUME NEW h1 \in Record \cup {Garbage}, NEW h2 \in Record \cup {Garbage}
    PROVE  /\ Select(h1, h2) \in {h1, h2}
           /\ h1 = Garbage => Select(h1, h2) = h2
           /\ h2 = Garbage => Select(h1, h2) = h1
           /\ h1 = h2 => Select(h1, h2) = h1
           /\ h1 \in Record /\ h2 \in Record => 
                 /\ h1.count < h2.count => Select(h1, h2) = h2
                 /\ h1.count >= h2.count => Select(h1, h2) = h1
  BY HwinfoAssumption DEF Select, Record

(* A record that is held is what its region contributes to the choice. *)
LEMMA HeldLoaded ==
    ASSUME NEW st \in Condition, NEW d \in Content, NEW c \in Copy
    PROVE  /\ HeldIn(st, d, c) \in Record \cup {Garbage}
           /\ st[Seek(st, c)] = "good" =>
                 Load(st, d, Seek(st, c)) = HeldIn(st, d, c)
           /\ HeldIn(st, d, c) # Garbage => st[Seek(st, c)] = "good"
           /\ Load(st, d, Seek(st, c)) \in Record \cup {Garbage}
  <1>1. Seek(st, c) \in Block
    BY SeekFacts
  <1> QED BY <1>1, LoadGood, LoadType DEF HeldIn, Content

(* If a record is held, a boot finds one that is not older. *)
LEMMA FoundAtLeast ==
    ASSUME NEW st \in Condition, NEW d \in Content, NEW c \in Copy,
           HeldIn(st, d, c) # Garbage
    PROVE  /\ Found(st, d) \in Record
           /\ Found(st, d).count >= HeldIn(st, d, c).count
  <1> DEFINE h1 == Load(st, d, Seek(st, 1))
             h2 == Load(st, d, Seek(st, 2))
  <1>1. /\ h1 \in Record \cup {Garbage} /\ h2 \in Record \cup {Garbage}
        /\ HeldIn(st, d, c) \in Record
        /\ HeldIn(st, d, c) = h1 \/ HeldIn(st, d, c) = h2
    BY HeldLoaded DEF Copy
  <1>2. Found(st, d) = Select(h1, h2)
    BY DEF Found
  <1> HIDE DEF h1, h2
  <1>3. \A r \in Record : r.count \in Int
    BY HwinfoAssumption DEF Record
  <1> QED BY <1>1, <1>2, <1>3, SelectFacts, HwinfoAssumption

(* If both copies are held, a boot chooses between them. *)
LEMMA FoundBoth ==
    ASSUME NEW st \in Condition, NEW d \in Content,
           HeldIn(st, d, 1) # Garbage, HeldIn(st, d, 2) # Garbage
    PROVE  Found(st, d) = Select(HeldIn(st, d, 1), HeldIn(st, d, 2))
  BY HeldLoaded DEF Copy, Found

(* If one copy is held and the other one erased, a boot finds the one.     *)
LEMMA FoundOne ==
    ASSUME NEW st \in Condition, NEW d \in Content, NEW c \in Copy,
           st[Seek(st, c)] = "good", HeldIn(st, d, c) = Garbage,
           HeldIn(st, d, 3 - c) # Garbage
    PROVE  Found(st, d) = HeldIn(st, d, 3 - c)
  <1>1. /\ HeldIn(st, d, 1) \in Record \cup {Garbage}
        /\ HeldIn(st, d, 2) \in Record \cup {Garbage}
    BY HeldLoaded DEF Copy
  <1>2. Found(st, d) = Select(HeldIn(st, d, 1), HeldIn(st, d, 2))
    BY HeldLoaded, Regions DEF Found, Copy
  <1> QED BY <1>1, <1>2, SelectFacts DEF Copy

(* If a region has no good block left and no block is unreadable otherwise *)
(* than by its mark, a boot finds the copy of the other region: loading    *)
(* goes past the marked blocks, to that copy or past the device.           *)
LEMMA FoundWorn ==
    ASSUME NEW st \in Condition, NEW d \in Content, NEW c \in Copy,
           \A b \in Block : st[b] \in {"good", "bad"},
           st[Seek(st, c)] # "good", HeldIn(st, d, 3 - c) # Garbage
    PROVE  Found(st, d) = HeldIn(st, d, 3 - c)
  <1> DEFINE s == Seek(st, c)
             t == Seek(st, 3 - c)
             readable == {x \in Block : x >= s /\ st[x] \notin {"bad", "ecc_first"}}
  <1>1. /\ s = SeekStart(c) /\ \A b \in Region(c) : st[b] = "bad"
        /\ t \in Region(3 - c) /\ t \in Block /\ st[t] = "good"
        /\ \A b \in Region(3 - c) : st[b] = "good" => t <= b
    BY SeekFacts, HeldLoaded, Regions DEF Copy
  <1>2. /\ HeldIn(st, d, 3 - c) \in Record
        /\ Load(st, d, t) = HeldIn(st, d, 3 - c)
    BY HeldLoaded, Regions
  <1>3. CASE c = 1
    <2>1. readable \in SUBSET Nat /\ t \in readable /\ \A x \in readable : t <= x
      BY <1>1, <1>3, Regions
    <2>2. Min(readable) = t
      <3>1. Min(readable) \in readable /\ Min(readable) <= t
        <4> HIDE DEF readable
        <4> QED BY <2>1, MinFacts
      <3>2. Min(readable) \in Nat /\ t \in Nat /\ t <= Min(readable)
        BY <2>1, <3>1
      <3> HIDE DEF readable, t
      <3> QED BY <3>1, <3>2
    <2>3. Load(st, d, s) = d[t]
      BY <1>1, <2>1, <2>2 DEF Load
    <2>4. d[t] = HeldIn(st, d, 3 - c)
      BY <1>1 DEF HeldIn
    <2> QED BY <1>2, <1>3, <2>3, <2>4, SelectFacts DEF Found
  <1>4. CASE c = 2
    <2>1. ASSUME NEW x \in Block, x >= s PROVE st[x] = "bad"
      <3>1. x \in Region(2)
        BY <1>1, <1>4, <2>1, Regions, HwinfoAssumption
      <3> QED BY <1>1, <1>4, <3>1
    <2>2. readable = {}
      BY <2>1
    <2>3. Load(st, d, s) = Garbage
      BY <2>2 DEF Load
    <2> QED BY <1>2, <1>4, <2>3, SelectFacts DEF Found
  <1> QED BY <1>3, <1>4 DEF Copy
--------------------------------------------------------------------------------
(* The inductive invariant. *)

(* The copy of region c, and the content of its good blocks: nothing but   *)
(* the first of them was ever written.                                     *)
FirstOnly ==
    \A c \in Copy : \A b \in Region(c) :
        state[b] = "good" /\ data[b] # Garbage => b = Seek(state, c)

(* One copy is always held; copies that are held are at most one update    *)
(* old, and equally old ones are equal.                                    *)
CopiesInv ==
    /\ \E c \in Copy : Held(c) # Garbage
    /\ \A c \in Copy : Held(c) # Garbage => Held(c).count >= last - 1
    /\ Held(1) # Garbage /\ Held(2) # Garbage /\ Held(1).count = Held(2).count
        => Held(1) = Held(2)

(* While one copy is being written, in the first good block of its region, *)
(* the other one is held and is what the update starts from.               *)
Writing(c) ==
    /\ target = Seek(state, c) /\ state[target] = "good"
    /\ data[target] = Garbage /\ Held(3 - c) # Garbage
    /\ new = Held(3 - c) \/ new.count = Held(3 - c).count + 1

TargetInv == target # NoBlock => kernel # "off" /\ \E c \in Copy : Writing(c)

(* Blocks are unreadable only after a decay. *)
EccInv == decays = 0 => \A b \in Block : state[b] \in {"good", "bad"}

IInv == TypeOK /\ FirstOnly /\ CopiesInv /\ TargetInv /\ EccInv

(* Held, in terms of the state of the blocks. *)
LEMMA HeldDef == \A c \in Copy : /\ Held(c) = HeldIn(state, data, c)
                                 /\ Held(c)' = HeldIn(state', data', c)
  BY DEF Held, HeldIn

(* The device as it leaves the factory satisfies the invariant. *)
LEMMA InitInv == Init => IInv
  <1> SUFFICES ASSUME Init PROVE IInv OBVIOUS
  <1> DEFINE first == [flag |-> <<>>, count |-> 0]
  <1>1. PICK marked \in SUBSET Block :
            /\ state = [b \in Block |-> IF b \in marked THEN "bad" ELSE "good"]
            /\ \E written \in SUBSET Copy :
                /\ \E c \in written : Region(c) \ marked # {}
                /\ data = [b \in Block |->
                            IF \E c \in written : /\ b \in Region(c) \ marked
                                                  /\ b = Seek(state, c)
                            THEN first ELSE Garbage]
    BY DEF Init
  <1>2. PICK written \in SUBSET Copy :
            /\ \E c \in written : Region(c) \ marked # {}
            /\ data = [b \in Block |->
                        IF \E c \in written : /\ b \in Region(c) \ marked
                                              /\ b = Seek(state, c)
                        THEN first ELSE Garbage]
    BY <1>1
  <1>3. first \in Record /\ first.count = 0 /\ first # Garbage
    BY HwinfoAssumption DEF Record
  <1> HIDE DEF first
  <1>4. state \in Condition /\ data \in Content
    BY <1>1, <1>2, <1>3 DEF Condition, Content
  <1>5. \A b \in Block : data[b] \in {first, Garbage}
    BY <1>2
  <1>6. \A c \in Copy : Seek(state, c) \in Region(c) /\ Seek(state, c) \in Block
    BY <1>4, SeekFacts
  <1>7. FirstOnly
    <2> SUFFICES ASSUME NEW c \in Copy, NEW b \in Region(c), data[b] # Garbage
                 PROVE  b = Seek(state, c)
      BY DEF FirstOnly
    <2>1. b \in Block
      BY Regions DEF Copy
    <2>2. PICK c2 \in Copy : b \in Region(c2) /\ b = Seek(state, c2)
      BY <1>2, <2>1
    <2> QED BY <2>1, <2>2, Regions DEF Copy
  <1>8. CopiesInv
    <2>1. \A c \in Copy : Held(c) \in {first, Garbage}
      BY <1>5, <1>6 DEF Held
    <2>2. PICK c \in written : Region(c) \ marked # {}
      BY <1>2
    <2>3. PICK b \in Region(c) : b \notin marked
      BY <2>2
    <2>4. b \in Block /\ state[b] = "good"
      BY <1>1, <2>3, Regions DEF Copy
    <2>5. state[Seek(state, c)] = "good"
      BY <1>4, <2>4, SeekFacts
    <2>6. Seek(state, c) \in Region(c) \ marked
      BY <1>1, <1>6, <2>5
    <2>7. Held(c) = first
      BY <1>2, <1>6, <2>5, <2>6 DEF Held
    <2>8. last = 0
      BY DEF Init
    <2> QED BY <1>3, <2>1, <2>7, <2>8 DEF CopiesInv, Copy
  <1>9. TypeOK
    BY <1>3, <1>4, HwinfoAssumption DEF Init, TypeOK, Condition, Content, NoBlock, first
  <1>10. TargetInv /\ EccInv
    BY <1>1 DEF Init, TargetInv, EccInv
  <1> QED BY <1>7, <1>8, <1>9, <1>10 DEF IInv

(* Facts that follow from the types. *)
LEMMA TypeFacts ==
    ASSUME TypeOK
    PROVE  /\ state \in Condition /\ data \in Content
           /\ \A c \in Copy : Held(c) \in Record \cup {Garbage}
           /\ \A r \in Record : r.count \in Nat /\ r.flag \in Flag /\ r # Garbage
  <1>1. state \in Condition /\ data \in Content
    BY DEF TypeOK, Condition, Content
  <1>2. \A c \in Copy : Held(c) \in Record \cup {Garbage}
    BY <1>1, HeldLoaded, HeldDef
  <1> QED BY <1>1, <1>2, HwinfoAssumption DEF Record

(* Booting reads the flash only. *)
LEMMA BootInv == ASSUME IInv, hwinfo_init PROVE IInv'
  <1>1. UNCHANGED <<state, data, target, new, last, decays>> /\ kernel = "off"
    BY DEF hwinfo_init
  <1>2. target = NoBlock
    BY <1>1 DEF IInv, TargetInv
  <1>3. Found(state, data) \in Record
    BY FoundAtLeast, TypeFacts, HeldDef DEF IInv, CopiesInv
  <1>4. TypeOK'
    BY <1>1, <1>3 DEF hwinfo_init, TypeOK, IInv
  <1>5. \A c \in Copy : Held(c)' = Held(c)
    BY <1>1, HeldDef
  <1>6. CopiesInv'
    BY <1>1, <1>5 DEF CopiesInv, IInv, Copy
  <1>7. FirstOnly' /\ TargetInv' /\ EccInv'
    BY <1>1, <1>2 DEF FirstOnly, TargetInv, EccInv, IInv
  <1> QED BY <1>4, <1>6, <1>7 DEF IInv

(* Losing power only ends a write. *)
LEMMA PowerOffInv == ASSUME IInv, PowerOff PROVE IInv'
  <1>1. UNCHANGED <<state, data, new, last, decays>> /\ target' = NoBlock
    BY DEF PowerOff
  <1>2. TypeOK'
    BY <1>1 DEF PowerOff, TypeOK, IInv
  <1>3. \A c \in Copy : Held(c)' = Held(c)
    BY <1>1, HeldDef
  <1>4. CopiesInv'
    BY <1>1, <1>3 DEF CopiesInv, IInv, Copy
  <1>5. FirstOnly' /\ TargetInv' /\ EccInv'
    BY <1>1 DEF FirstOnly, TargetInv, EccInv, IInv
  <1> QED BY <1>2, <1>4, <1>5 DEF IInv

(* Erasing the older copy leaves the other one, and nothing to be found    *)
(* has changed.                                                            *)
LEMMA EraseStep ==
    ASSUME IInv, NEW c \in Copy, Erase(c)
    PROVE  IInv' /\ Found(state', data') = Found(state, data)
  <1> DEFINE b == Seek(state, c)
             keep == Held(3 - c)
  <1>1. /\ kernel # "off" /\ target = NoBlock /\ state[b] = "good"
        /\ keep # Garbage
        /\ Held(c) # Garbage => Held(c).count <= keep.count
        /\ data' = [data EXCEPT ![b] = Garbage] /\ target' = b
        /\ \/ new' = keep
           \/ /\ keep.count < MaxCount
              /\ \E f \in Flag : new' = [flag |-> f, count |-> keep.count + 1]
        /\ UNCHANGED <<state, kernel, mem, last, decays>>
    BY DEF Erase
  <1>2. /\ state \in Condition /\ data \in Content
        /\ 3 - c \in Copy /\ 3 - c # c
        /\ b \in Region(c) /\ b \in Block
        /\ Seek(state, 3 - c) \in Block /\ Seek(state, 3 - c) # b
    <2>1. Seek(state, 3 - c) \in Region(3 - c) /\ Seek(state, 3 - c) \in Block
      BY TypeFacts, SeekFacts, Regions DEF IInv
    <2>2. b \in Region(c) /\ b \in Block
      BY TypeFacts, SeekFacts DEF IInv
    <2>3. Seek(state, 3 - c) # b
      BY <2>1, <2>2, Regions DEF Copy
    <2> QED BY <2>1, <2>2, <2>3, TypeFacts, Regions DEF IInv
  <1>3. Held(c)' = Garbage /\ Held(3 - c)' = keep
    BY <1>1, <1>2, HeldDef DEF HeldIn, Held, Content
  <1>4. keep \in Record /\ keep.count \in Nat /\ new' \in Record
    BY <1>1, <1>2, TypeFacts, HwinfoAssumption DEF IInv, Record
  <1>5. data' \in Content /\ TypeOK'
    BY <1>1, <1>2, <1>4 DEF IInv, TypeOK, Content
  <1>6. FirstOnly'
    BY <1>1, <1>2, Regions DEF IInv, FirstOnly, Content, Copy
  <1>7. CopiesInv'
    <2>1. keep.count >= last - 1
      BY <1>2, <1>4, <1>1 DEF IInv, CopiesInv
    <2> QED BY <1>1, <1>2, <1>3, <2>1 DEF CopiesInv, Copy
  <1>8. TargetInv'
    <2>1. new' = Held(3 - c)' \/ new'.count = Held(3 - c)'.count + 1
      BY <1>1, <1>3
    <2>2. Writing(c)'
      BY <1>1, <1>2, <1>3, <2>1 DEF Writing, Content
    <2> QED BY <1>1, <2>2 DEF TargetInv
  <1>9. EccInv'
    BY <1>1 DEF EccInv, IInv
  <1>10. Found(state', data') = keep
    BY <1>1, <1>2, <1>3, <1>5, FoundOne, HeldDef
  <1>11. Found(state, data) = keep
    <2>1. CASE Held(c) = Garbage
      BY <1>1, <1>2, <2>1, FoundOne, HeldDef
    <2>2. CASE Held(c) # Garbage
      <3>1. /\ Held(c) \in Record /\ Held(c).count \in Nat
            /\ Held(c).count = keep.count => Held(c) = keep
        BY <1>2, <1>1, <2>2, TypeFacts DEF IInv, CopiesInv, Copy
      <3>2. Found(state, data) = Select(Held(1), Held(2))
        BY <1>1, <1>2, <2>2, FoundBoth, HeldDef DEF Copy
      <3> HIDE DEF keep
      <3>3. CASE c = 1
        <4>1. Held(2) = keep
          BY <3>3 DEF keep
        <4> QED BY <1>1, <1>4, <3>1, <3>2, <3>3, <4>1, SelectFacts, <2>2
      <3>4. CASE c = 2
        <4>1. Held(1) = keep
          BY <3>4 DEF keep
        <4> QED BY <1>1, <1>4, <3>1, <3>2, <3>4, <4>1, SelectFacts, <2>2
      <3> QED BY <3>3, <3>4 DEF Copy
    <2> QED BY <2>1, <2>2
  <1> QED BY <1>5, <1>6, <1>7, <1>8, <1>9, <1>10, <1>11 DEF IInv

(* When the copy is programmed, it is what a boot finds. *)
LEMMA ProgramStep ==
    ASSUME IInv, Program
    PROVE  IInv' /\ Found(state', data') = new
  <1>1. PICK c \in Copy : Writing(c)
    BY DEF IInv, TargetInv, Program
  <1> DEFINE keep == Held(3 - c)
  <1>2. /\ data' = [data EXCEPT ![target] = new] /\ target' = NoBlock
        /\ last' = new.count /\ UNCHANGED <<state, new, kernel, mem, decays>>
    BY DEF Program
  <1>3. /\ state \in Condition /\ data \in Content
        /\ 3 - c \in Copy /\ 3 - c # c
        /\ target \in Region(c) /\ target \in Block /\ target = Seek(state, c)
        /\ Seek(state, 3 - c) \in Block /\ Seek(state, 3 - c) # target
    <2>1. Seek(state, 3 - c) \in Region(3 - c) /\ Seek(state, 3 - c) \in Block
      BY TypeFacts, SeekFacts, Regions DEF IInv
    <2>2. target = Seek(state, c) /\ target \in Region(c) /\ target \in Block
      BY <1>1, TypeFacts, SeekFacts DEF IInv, Writing
    <2>3. Seek(state, 3 - c) # target
      BY <2>1, <2>2, Regions DEF Copy
    <2> QED BY <2>1, <2>2, <2>3, TypeFacts, Regions DEF IInv
  <1>4. /\ new \in Record /\ new.count \in 0 .. MaxCount /\ new.count \in Nat /\ new # Garbage
        /\ keep \in Record /\ keep.count \in Nat /\ keep # Garbage
        /\ new = keep \/ new.count = keep.count + 1
    BY <1>1, <1>3, TypeFacts, HwinfoAssumption DEF IInv, TypeOK, Writing, Record
  <1>5. Held(c)' = new /\ Held(3 - c)' = keep
    BY <1>1, <1>2, <1>3, HeldDef DEF HeldIn, Held, Content, Writing
  <1>6. data' \in Content /\ TypeOK'
    BY <1>2, <1>3, <1>4 DEF IInv, TypeOK, Content
  <1>7. FirstOnly'
    BY <1>2, <1>3, Regions DEF IInv, FirstOnly, Content, Copy
  <1>8. CopiesInv'
    <2>1. \A x \in Copy : x = c \/ x = 3 - c
      BY DEF Copy
    <2>2. /\ new.count >= new.count - 1 /\ keep.count >= new.count - 1
          /\ new.count = keep.count => new = keep
      BY <1>4
    <2> QED BY <1>2, <1>4, <1>5, <2>1, <2>2 DEF CopiesInv, Copy
  <1>9. TargetInv' /\ EccInv'
    BY <1>2 DEF TargetInv, EccInv, IInv
  <1>10. Found(state', data') = new
    <2>1. Found(state', data') = Select(Held(1)', Held(2)')
      BY <1>2, <1>3, <1>4, <1>5, <1>6, FoundBoth, HeldDef DEF Copy
    <2> HIDE DEF keep
    <2>2. CASE c = 1
      <3>1. Held(1)' = new /\ Held(2)' = keep
        BY <1>5, <2>2
      <3> QED BY <1>4, <2>1, <3>1, SelectFacts
    <2>3. CASE c = 2
      <3>1. Held(2)' = new /\ Held(1)' = keep
        BY <1>5, <2>3
      <3> QED BY <1>4, <2>1, <3>1, SelectFacts
    <2> QED BY <2>2, <2>3 DEF Copy
  <1> QED BY <1>6, <1>7, <1>8, <1>9, <1>10 DEF IInv

(* When a region loses a good block, only good blocks behind it remain. *)
LEMMA SeekLater ==
    ASSUME NEW st \in Condition, NEW st2 \in Condition, NEW c \in Copy,
           \A b \in Region(c) : st2[b] = "good" => st[b] = "good",
           st2[Seek(st2, c)] = "good"
    PROVE  /\ st[Seek(st, c)] = "good"
           /\ st2[Seek(st, c)] = "good" => Seek(st2, c) = Seek(st, c)
  <1>1. /\ Seek(st, c) \in Region(c) /\ Seek(st2, c) \in Region(c)
        /\ Region(c) \subseteq Nat
    BY SeekFacts, Regions DEF Copy
  <1>2. st[Seek(st, c)] = "good" /\ Seek(st, c) <= Seek(st2, c)
    BY <1>1, SeekFacts
  <1>3. st2[Seek(st, c)] = "good" => Seek(st2, c) <= Seek(st, c)
    BY <1>1, SeekFacts
  <1>4. Seek(st, c) \in Nat /\ Seek(st2, c) \in Nat
    BY <1>1
  <1> QED BY <1>2, <1>3, <1>4

(* A block that wears out held no record, and the one that takes its place *)
(* is erased: the other copy is all there is, before and after.            *)
LEMMA WearOutStep ==
    ASSUME IInv, WearOut
    PROVE  /\ IInv'
           /\ decays = 0 => Found(state', data') = Found(state, data)
  <1>1. PICK c \in Copy : Writing(c)
    BY DEF IInv, TargetInv, WearOut
  <1> DEFINE keep == Held(3 - c)
             b == Seek(state', c)
  <1>2. /\ state \in Condition /\ data \in Content
        /\ 3 - c \in Copy /\ 3 - c # c
        /\ target \in Region(c) /\ target \in Block /\ target = Seek(state, c)
        /\ Seek(state, 3 - c) \in Region(3 - c) /\ Seek(state, 3 - c) \in Block
        /\ state[target] = "good" /\ data[target] = Garbage /\ keep # Garbage
        /\ keep \in Record /\ kernel # "off" /\ target # NoBlock
    BY <1>1, TypeFacts, SeekFacts, Regions DEF IInv, TargetInv, WearOut, Writing
  <1>3. c = IF target < R THEN 1 ELSE 2
    BY <1>2, Regions DEF Copy
  <1>4. /\ state' = [state EXCEPT ![target] = "bad"]
        /\ \/ /\ state'[b] = "good" /\ target' = b
              /\ data' = [data EXCEPT ![b] = Garbage]
           \/ state'[b] # "good" /\ target' = NoBlock /\ UNCHANGED data
        /\ UNCHANGED <<new, kernel, mem, last, decays>>
    BY <1>3 DEF WearOut
  <1>5. /\ state' \in Condition
        /\ \A x \in Region(3 - c) : state'[x] = state[x]
        /\ \A x \in Region(c) : x \in Block /\ (state'[x] = "good" => state[x] = "good" /\ x # target)
    BY <1>2, <1>4, Regions DEF Condition, Copy
  <1>6. Seek(state', 3 - c) = Seek(state, 3 - c)
    BY <1>5, SeekLocal
  <1>7. b \in Region(c) /\ b \in Block /\ b # Seek(state, 3 - c)
    <2>1. b \in Region(c) /\ b \in Block
      BY <1>5, SeekFacts
    <2> QED BY <2>1, <1>2, Regions DEF Copy
  <1>8. Held(3 - c)' = keep
    <2> DEFINE s == Seek(state, 3 - c)
    <2>1. state'[s] = state[s]
      BY <1>2, <1>5
    <2>2. data'[s] = data[s]
      BY <1>2, <1>4, <1>7 DEF Content
    <2> QED BY <1>6, <2>1, <2>2 DEF Held
  <1>9. data' \in Content /\ Held(c)' = Garbage
    BY <1>2, <1>4, <1>7 DEF Held, Content
  <1>10. TypeOK'
    <2>1. target' \in Block \cup {NoBlock}
      BY <1>4, <1>7
    <2> QED BY <1>4, <1>5, <1>9, <2>1 DEF IInv, TypeOK, Condition, Content
  <1>11. FirstOnly'
    <2> SUFFICES ASSUME NEW x \in Copy, NEW y \in Region(x),
                        state'[y] = "good", data'[y] # Garbage
                 PROVE  y = Seek(state', x)
      BY DEF FirstOnly
    <2>0. y \in Block
      BY Regions DEF Copy
    <2>1. data[y] # Garbage
      BY <1>2, <1>4, <1>7, <2>0 DEF Content
    <2>2. CASE x = c
      BY <1>2, <1>5, <2>1, <2>2 DEF IInv, FirstOnly
    <2>3. CASE x = 3 - c
      BY <1>2, <1>5, <1>6, <2>1, <2>3 DEF IInv, FirstOnly
    <2> QED BY <2>2, <2>3 DEF Copy
  <1>12. CopiesInv'
    <2>1. keep.count >= last - 1
      BY <1>2 DEF IInv, CopiesInv
    <2> QED BY <1>2, <1>4, <1>8, <1>9, <2>1 DEF CopiesInv, Copy
  <1>13. TargetInv'
    <2>1. CASE target' = NoBlock
      BY <2>1 DEF TargetInv
    <2>2. CASE target' # NoBlock
      <3>1. new' = Held(3 - c)' \/ new'.count = Held(3 - c)'.count + 1
        BY <1>1, <1>4, <1>8 DEF Writing
      <3>2. Writing(c)'
        BY <1>2, <1>4, <1>7, <1>8, <2>2, <3>1 DEF Writing, Content
      <3> QED BY <1>2, <1>4, <3>2 DEF TargetInv
    <2> QED BY <2>1, <2>2
  <1>14. EccInv'
    BY <1>2, <1>4 DEF EccInv, IInv, Condition
  <1>15. Found(state, data) = keep
    <2>1. state[Seek(state, c)] = "good" /\ Held(c) = Garbage
      BY <1>2 DEF Held
    <2> QED BY <1>2, <2>1, FoundOne, HeldDef
  <1>16. ASSUME decays = 0 PROVE Found(state', data') = keep
    <2>1. CASE state'[b] = "good"
      BY <1>2, <1>5, <1>8, <1>9, <2>1, FoundOne, HeldDef
    <2>2. CASE state'[b] # "good"
      <3>1. \A x \in Block : state'[x] \in {"good", "bad"}
        BY <1>4, <1>14, <1>16 DEF EccInv
      <3> QED BY <1>2, <1>5, <1>8, <1>9, <2>2, <3>1, FoundWorn, HeldDef
    <2> QED BY <2>1, <2>2
  <1> QED BY <1>10, <1>11, <1>12, <1>13, <1>14, <1>15, <1>16 DEF IInv

(* A block that decays takes at most one of the two copies with it. *)
LEMMA DecayInv == ASSUME IInv, Decay PROVE IInv'
  <1>1. PICK b \in Block, e \in EccStates :
            state[b] = "good" /\ state' = [state EXCEPT ![b] = e]
    BY DEF Decay
  <1>2. /\ decays' = decays + 1 /\ decays < MaxDecay /\ target = NoBlock
        /\ UNCHANGED <<data, target, new, kernel, mem, last>>
        /\ \A c \in Copy : Held(c) # Garbage
    BY DEF Decay
  <1>3. PICK c \in Copy : b \in Region(c)
    BY Regions DEF Copy
  <1>4. /\ state \in Condition /\ data \in Content
        /\ 3 - c \in Copy /\ 3 - c # c
        /\ \A x \in Copy : Region(x) \subseteq Block
        /\ \A x \in Copy : Held(x) \in Record
    BY <1>2, TypeFacts, Regions DEF IInv, Copy
  <1>5. /\ state' \in Condition
        /\ \A x \in Region(3 - c) : state'[x] = state[x]
        /\ \A x \in Region(c) : state'[x] = "good" => state[x] = "good" /\ x # b
    BY <1>1, <1>3, <1>4, Regions DEF Condition, Copy, EccStates
  <1>6. Seek(state', 3 - c) = Seek(state, 3 - c) /\ Held(3 - c)' = Held(3 - c)
    <2>1. Seek(state', 3 - c) = Seek(state, 3 - c)
      BY <1>5, SeekLocal
    <2>2. Seek(state, 3 - c) \in Region(3 - c)
      BY <1>4, SeekFacts
    <2> QED BY <1>2, <1>5, <2>1, <2>2 DEF Held
  <1>7. Held(c)' \in {Held(c), Garbage}
    <2>1. CASE state'[Seek(state', c)] # "good"
      BY <2>1 DEF Held
    <2>2. CASE state'[Seek(state', c)] = "good"
      <3>1. Seek(state', c) \in Region(c)
        BY <1>5, SeekFacts
      <3>2. state[Seek(state', c)] = "good"
        BY <1>5, <2>2, <3>1
      <3>3. data[Seek(state', c)] # Garbage => Seek(state', c) = Seek(state, c)
        BY <3>1, <3>2 DEF IInv, FirstOnly
      <3>4. Held(c)' = data[Seek(state', c)]
        BY <1>2, <2>2 DEF Held
      <3>5. Seek(state', c) = Seek(state, c) => Held(c) = data[Seek(state', c)]
        BY <3>2 DEF Held
      <3> QED BY <3>3, <3>4, <3>5
    <2> QED BY <2>1, <2>2
  <1>8. TypeOK'
    <2>1. decays' \in 0 .. MaxDecay
      BY <1>2, HwinfoAssumption DEF IInv, TypeOK
    <2> QED BY <1>2, <1>5, <2>1 DEF IInv, TypeOK, Condition
  <1>9. FirstOnly'
    <2> SUFFICES ASSUME NEW x \in Copy, NEW y \in Region(x),
                        state'[y] = "good", data'[y] # Garbage
                 PROVE  y = Seek(state', x)
      BY DEF FirstOnly
    <2>2. CASE x = c
      <3>1. state[y] = "good" /\ y # b /\ y = Seek(state, c)
        BY <1>2, <1>5, <2>2 DEF IInv, FirstOnly
      <3>2. state'[Seek(state', c)] = "good"
        BY <1>5, <2>2, SeekFacts
      <3> QED BY <1>4, <1>5, <2>2, <3>1, <3>2, SeekLater
    <2>3. CASE x = 3 - c
      BY <1>2, <1>5, <1>6, <2>3 DEF IInv, FirstOnly
    <2> QED BY <2>2, <2>3 DEF Copy
  <1>10. CopiesInv'
    BY <1>2, <1>4, <1>6, <1>7 DEF CopiesInv, Copy, IInv
  <1>11. TargetInv' /\ EccInv'
    <2>1. decays' # 0
      BY <1>2 DEF IInv, TypeOK
    <2> QED BY <1>2, <2>1 DEF TargetInv, EccInv
  <1> QED BY <1>8, <1>9, <1>10, <1>11 DEF IInv

(* Every step preserves the invariant. *)
LEMMA NextInv == IInv /\ [Next]_vars => IInv'
  <1> SUFFICES ASSUME IInv, [Next]_vars PROVE IInv' OBVIOUS
  <1>1. CASE UNCHANGED vars
    <2>1. \A c \in Copy : Held(c)' = Held(c)
      BY <1>1, HeldDef DEF vars
    <2>2. CopiesInv' /\ TargetInv'
      BY <1>1, <2>1, Regions DEF vars, IInv, CopiesInv, TargetInv, Writing, Copy
    <2> QED BY <1>1, <2>2 DEF vars, IInv, TypeOK, FirstOnly, EccInv
  <1> QED BY <1>1, BootInv, PowerOffInv, EraseStep, ProgramStep, WearOutStep,
             DecayInv DEF Next
--------------------------------------------------------------------------------
(* The types are kept, whatever wears out and whenever the power goes. *)
THEOREM TypeTheorem == Spec => []TypeOK
  <1>1. IInv => TypeOK
    BY DEF IInv
  <1> QED BY <1>1, InitInv, NextInv, PTL DEF Spec

(* A boot finds a record at any moment, at most one update behind the last *)
(* one written, for any number of decayed blocks as long as the updater    *)
(* restores the copy in between.                                           *)
THEOREM LossTheorem == Spec => []SurvivesOneLoss
  <1>1. IInv => SurvivesOneLoss
    <2> SUFFICES ASSUME IInv PROVE SurvivesOneLoss OBVIOUS
    <2>1. PICK c \in Copy : Held(c) # Garbage /\ Held(c).count >= last - 1
      BY DEF IInv, CopiesInv
    <2>2. /\ Found(state, data) \in Record
          /\ Found(state, data).count >= Held(c).count
      BY <2>1, FoundAtLeast, TypeFacts, HeldDef DEF IInv
    <2>3. Held(c).count \in Nat /\ Found(state, data).count \in Nat /\ last \in Nat
      BY <2>1, <2>2, TypeFacts DEF IInv, TypeOK
    <2> QED BY <2>1, <2>2, <2>3, TypeFacts DEF SurvivesOneLoss, IInv
  <1> QED BY <1>1, InitInv, NextInv, PTL DEF Spec

(* The two copies implement one record that changes as a whole (BootStore): *)
(* each step of the updater, of the flash and of the boot is a step of it. *)
THEOREM StoreTheorem == Spec => AtomicStore
  <1>1. Init => Store!Init
    <2> SUFFICES ASSUME Init PROVE Store!Init OBVIOUS
    <2>1. IInv
      BY InitInv
    <2>2. Found(state, data) \in Record /\ new \in Record
      BY <2>1, FoundAtLeast, TypeFacts, HeldDef DEF IInv, CopiesInv, TypeOK
    <2>3. Found(state, data).flag \in Flag /\ new.flag \in Flag
      BY <2>1, <2>2, TypeFacts DEF IInv
    <2> QED BY <2>3 DEF Init, Store!Init
  <1>2. IInv /\ IInv' /\ [Next]_vars => [Store!Next]_(Store!vars)
    <2> SUFFICES ASSUME IInv, IInv', [Next]_vars
                 PROVE  Store!Next \/ UNCHANGED Store!vars
      OBVIOUS
    <2>1. /\ Found(state, data) \in Record /\ Found(state', data') \in Record
          /\ new' \in Record /\ decays \in Nat /\ decays' \in Nat
          /\ \A r \in Record : r.flag \in Flag
      <3>1. Found(state, data) \in Record
        BY FoundAtLeast, TypeFacts, HeldDef DEF IInv, CopiesInv
      <3>2. PICK c \in Copy : Held(c)' # Garbage
        BY DEF IInv, CopiesInv
      <3>3. state' \in Condition /\ data' \in Content
        BY DEF IInv, TypeOK, Condition, Content
      <3>4. Found(state', data') \in Record
        BY <3>2, <3>3, FoundAtLeast, HeldDef
      <3> QED BY <3>1, <3>4, TypeFacts DEF IInv, TypeOK
    <2>2. CASE hwinfo_init
      <3>1. boot_select_get(mem') <=>
                Found(state, data).flag \in {f \in Flag : \E i \in DOMAIN f : f[i] # 0}
        BY <2>1, <2>2, TypeFacts DEF hwinfo_init, boot_select_get, IInv
      <3> QED BY <2>2, <3>1 DEF hwinfo_init, Store!Next, Store!Boot
    <2>3. CASE PowerOff
      BY <2>3 DEF PowerOff, Store!Next, Store!PowerOff
    <2>4. CASE Decay
      BY <2>1, <2>4 DEF Decay, Store!Next, Store!Lose
    <2>5. CASE Program
      <3>1. kernel # "off"
        BY <2>5 DEF Program, IInv, TargetInv
      <3> QED BY <2>5, <3>1, ProgramStep DEF Program, Store!Next, Store!Update
    <2>6. CASE WearOut
      <3>1. CASE decays = 0
        BY <2>6, <3>1, WearOutStep DEF WearOut, Store!vars
      <3>2. CASE decays # 0
        BY <2>1, <2>6, <3>2 DEF WearOut, Store!Next, Store!Lose
      <3> QED BY <3>1, <3>2
    <2>7. CASE \E c \in Copy : Erase(c)
      BY <2>1, <2>7, EraseStep DEF Erase, Store!Next, Store!Request
    <2>8. CASE UNCHANGED vars
      BY <2>8 DEF vars, Store!vars
    <2> QED BY <2>2, <2>3, <2>4, <2>5, <2>6, <2>7, <2>8 DEF Next
  <1> QED BY <1>1, <1>2, InitInv, NextInv, PTL DEF Spec, AtomicStore, Store!Spec
================================================================================
