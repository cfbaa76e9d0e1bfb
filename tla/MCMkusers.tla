------------------------------- MODULE MCMkusers -------------------------------
(* Instances of Mkusers: every table of two rows over two users and two    *)
(* groups, with ids in and below a range of automatic ids that is so small *)
(* that it can be used up.                                                 *)
EXTENDS Mkusers

Names == {"root", "a", "b"}
GroupNames == {"root", "sys", "g", "h"}

RowOf(u, n, g, m, gs, h) ==
    [user |-> u, uid |-> n, group |-> g, gid |-> m, groups |-> gs, home |-> h]

PlainRows ==
    {RowOf(u, n, g, m, gs, "absolute") :
        u \in {"a", "b"}, n \in {Automatic, 1, 3}, g \in {"g", "h"},
        m \in {Automatic, 1, 3}, gs \in {<<>>, <<"h">>, <<"h", "g">>}}

OddRows ==
    {RowOf(u, n, "g", m, <<>>, h) :
        u \in {"root", "a"}, n \in {Automatic, 0}, m \in {Automatic, 0, -3},
        h \in {"none", "invalid"}}

TwoRows ==
    {<<r, s>> : r \in PlainRows, s \in PlainRows}
    \cup {<<r, s>> : r \in PlainRows, s \in OddRows}

(* Target directories: the system's own entries only; a group and a user   *)
(* of the packages' names, and an automatic gid that is taken, so that the *)
(* group cannot be added again once another one has the last; a group      *)
(* whose gid lies in the automatic range.                                  *)
NoIds(S) == [x \in S |-> IF x = "root" THEN 0 ELSE None]

Bare == [uid |-> NoIds(Names), ugid |-> NoIds(Names),
         gid |-> NoIds(GroupNames), members |-> [g \in GroupNames |-> {}]]

WithUser == [Bare EXCEPT !.uid["a"] = 4, !.ugid["a"] = 2,
                         !.gid["g"] = 2, !.gid["sys"] = 4]

WithGroup == [Bare EXCEPT !.gid["h"] = 3, !.members["h"] = {"root"}]

Targets == {Bare, WithUser, WithGroup}
================================================================================
