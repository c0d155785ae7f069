------------------------------- MODULE MCRooms -------------------------------
(* Ann hosts, from two tabs and a screen that polls; Bob has one phone.  In the *)
(* last two repertoires her page is looked at: beside a tab that ends the game, *)
(* and alone with a lost answer, a fault or a reload.                           *)
EXTENDS RoomPages, TLC

CONSTANTS ann, bob, trivia, chess, red, blue

MCLanes == {<<ann, "tap">>, <<ann, "tab">>, <<ann, "poll">>, <<bob, "tap">>}
MCSymmetry == Permutations({red, blue})
MCRepertoires ==
    {[l \in MCLanes |->
        CASE l = <<ann, "poll">> -> {"poll"}
          [] l = <<ann, "tap">> -> {"join", "setMode", "setPalette", "kick"}
          [] l = <<bob, "tap">> -> {"join", "setMode", "setPalette"}
          [] OTHER -> {}],
     [l \in MCLanes |->
        CASE l = <<ann, "tap">> -> {"select", "start", "restart", "exit"}
          [] l = <<ann, "tab">> -> {"select", "start", "exit"}
          [] l = <<bob, "tap">> -> {"join", "setMode"}
          [] OTHER -> {}],
     [l \in MCLanes |->
        CASE l = <<ann, "tap">> -> {"page", "select", "start", "exit", "setMode"}
          [] l = <<ann, "tab">> -> {"exit"}
          [] OTHER -> {}],
     [l \in MCLanes |->
        CASE l = <<ann, "tap">> -> {"page", "mishap", "select", "start", "exit", "setMode"}
          [] OTHER -> {}]}
MCMin == trivia :> 1 @@ chess :> 1
MCMax == trivia :> 2 @@ chess :> 1
===============================================================================
