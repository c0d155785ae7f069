------------------------------ MODULE MCAccounts ------------------------------
(* Ann has a laptop with two tabs and a phone, Bob a desk; there is one gamer   *)
(* tag.  What they do: sign up and log in beside one another, and beside an     *)
(* operator who purges a player; use the account page from two tabs, or from    *)
(* two devices; guess at somebody else's tag.  The operators of two consoles    *)
(* log in, each with the other's attempts in the way, add an admin, look after  *)
(* a player, and live through a change of the root password.                    *)
EXTENDS Console

CONSTANTS ann, bob, tag1, root, bea

MCDevice == [work |-> "laptop", spare |-> "laptop", away |-> "phone", other |-> "desk"]
MCOwner == [laptop |-> ann, phone |-> ann, desk |-> bob]

Pages == {"signup", "login", "account", "join"}
Does(all, uses) == [p \in all |-> IF p \in DOMAIN uses THEN uses[p] ELSE 0]
Table(work, spare, away, other) ==
    [work |-> Does(Pages, work), spare |-> Does(Pages, spare),
     away |-> Does(Pages, away), other |-> Does(Pages, other)]
Looked == Table([signup |-> 1], <<>>, <<>>, <<>>)
Purged == Table([signup |-> 1], <<>>, [login |-> 1], <<>>)
Staff  == Table(<<>>, <<>>, <<>>, <<>>)
Freed == Table([signup |-> 1, account |-> 2], <<>>, [login |-> 1], [signup |-> 1])
MCRepertoires ==
    {Looked, Purged, Staff, Freed,
     Table([signup |-> 1, account |-> 2], [account |-> 1, join |-> 1], <<>>, <<>>),
     Table([signup |-> 1, account |-> 2], <<>>, [account |-> 1, login |-> 1], <<>>),
     Table([signup |-> 1, login |-> 1], <<>>, <<>>, [login |-> 1])}
MCMaxFaults == [r \in MCRepertoires |-> IF r \in {Freed, Purged} THEN 0 ELSE 1]

Chores == {"login", "user", "insider", "delete", "admin", "logout", "rotate"}
Shift(front, back) == [front |-> Does(Chores, front), back |-> Does(Chores, back)]
MCDuties ==
    [r \in MCRepertoires |->
       CASE r = Purged -> Shift([login |-> 1, user |-> 1, delete |-> 1], <<>>)
         [] r = Looked -> Shift([login |-> 1, user |-> 2, insider |-> 2, logout |-> 1], <<>>)
         [] r = Staff  -> Shift([login |-> 1, admin |-> 1, logout |-> 1, rotate |-> 1], [login |-> 1])
         [] OTHER      -> Shift(<<>>, <<>>)]
===============================================================================
