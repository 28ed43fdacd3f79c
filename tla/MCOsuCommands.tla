---------------------------- MODULE MCOsuCommands ----------------------------
(***************************************************************************)
(* A small instance of OsuCommands for TLC: a set with a map of osu! and   *)
(* one of another mode, two members who played it, one request that may be *)
(* any command or message, and one that comes before, after or in between. *)
(***************************************************************************)
EXTENDS OsuCommands

CONSTANTS r1, r2

TwoMaps == {"m1", "m2"}
MapModes == [m \in TwoMaps |-> IF m = "m1" THEN "std" ELSE "mania"]
OneSet == [m \in TwoMaps |-> "s1"]

Play(u, m, mods, official, pp, score) ==
    [user |-> u, map |-> m, mods |-> mods, official |-> official, pp |-> pp, score |-> score]

(* Two plays of a member with the same mods, a calculated pp above all     *)
(* official ones, and plays enough for a second page.                      *)
TwoPlayers == [k \in {1, 2, 3} \X TwoMaps |->
    CASE k = <<1, "m1">> -> <<Play(1, "m1", "HD", TRUE, 3, 4), Play(1, "m1", "HD", TRUE, 2, 5),
                              Play(1, "m1", "DT", TRUE, 2, 3), Play(1, "m1", "NM", FALSE, 1, 2)>>
      [] k = <<2, "m1">> -> <<Play(2, "m1", "HD", FALSE, 4, 4), Play(2, "m1", "NM", TRUE, 1, 1)>>
      [] k = <<2, "m2">> -> <<Play(2, "m2", "DT", TRUE, 1, 6)>>
      [] OTHER -> <<>>]

Stats(pp, length, age) == [pp |-> pp, length |-> length, age |-> age]

(* Three members: one plays nothing, one is below the limit in one mode.   *)
ThreeProfiles == [u \in {1, 2, 3} |->
    CASE u = 1 -> [std |-> Stats(600, 1, 9), mania |-> Stats(300, 7, 2)]
      [] u = 2 -> [std |-> Stats(700, 3, 5)]
      [] OTHER -> << >>]

Plain == [name |-> "", on |-> "prefix", style |-> "", nth |-> FALSE, mode |-> NoMode,
          input |-> Nothing, set |-> FALSE, reply |-> FALSE, remove |-> FALSE,
          links |-> {}, short |-> FALSE]

Prefix ==
    {[Plain EXCEPT !.name = n] : n \in {"user", "save", "forcesave", "clean", "ranks", "last",
                                        "check", "leaderboard", "recent", "pins", "top"}}
    \cup {[Plain EXCEPT !.name = n, !.nth = TRUE, !.mode = "mania"] : n \in {"recent", "top", "pins"}}

Links == {MapEmbed("m1", "mania"), SetEmbed("s1", NoMode)}

Slash ==
    {[c EXCEPT !.on = "slash"] : c \in
        {[Plain EXCEPT !.name = n] : n \in {"user", "save", "forcesave", "ranks", "clean", "score",
                                            "leaderboard"}}
        \cup {[Plain EXCEPT !.name = "forcesave", !.remove = TRUE]}
        \cup {[Plain EXCEPT !.name = n, !.nth = TRUE, !.mode = "std"] : n \in {"recent", "top", "pins"}}
        \cup {[Plain EXCEPT !.name = n, !.input = e] :
                n \in {"beatmap", "check"}, e \in Links \cup {Nothing}}
        \cup {[Plain EXCEPT !.name = "beatmap", !.set = TRUE, !.mode = "mania"],
              [Plain EXCEPT !.name = "leaderboard", !.style = "file"],
              [Plain EXCEPT !.name = "top", !.style = "grid"]}}

Hooks ==
    {[Plain EXCEPT !.on = "message", !.name = "hook", !.links = Links],
     [Plain EXCEPT !.on = "message", !.name = "hook", !.links = Links, !.short = TRUE],
     [Plain EXCEPT !.on = "message", !.name = "score_hook"],
     [Plain EXCEPT !.on = "message", !.name = "dot_osu_hook"]}

Buttons ==
    {[Plain EXCEPT !.on = "button", !.name = n] : n \in {"check", "lb", "last", "mapset", "simulate"}}

(* What comes second answers what the first has shown.                     *)
Commands == [r \in {r1, r2} |->
    IF r = r1 THEN Prefix \cup Slash \cup Hooks
    ELSE Buttons \cup {[Plain EXCEPT !.name = "last", !.set = b, !.reply = TRUE] : b \in BOOLEAN}
         \cup {[Plain EXCEPT !.name = "last"]}]
=============================================================================
