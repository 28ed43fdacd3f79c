----------------------------- MODULE MCWatchers -----------------------------
(***************************************************************************)
(* What waits on messages for TLC: the handlers of role messages and the   *)
(* collectors of button presses.  They have nothing in common, so a        *)
(* behaviour uses one of them and leaves the other as it is.  There are as *)
(* many collectors as threads, so that all threads can stand still.        *)
(***************************************************************************)
EXTENDS RoleWatchers, InteractionCollector

CONSTANTS r1, r2, u1, h1, h2, h3, c1, c2, m1, m2, s1, s2, p1, p2

VARIABLE used

watchersVars == <<vars, collectorVars, used>>

WatchersTypeOK == TypeOK /\ CollectorTypeOK

WatchersInit ==
    /\ used \in {"roles", "threads", "collectors"}
    /\ Init
    /\ CollectorInit
    /\ used = "collectors" => stored = {}
    /\ used = "roles" => stored \subseteq {r1}
    /\ used # "collectors" => \A m \in Paginated : shard[m] = s1

WatchersNext ==
    /\ \/ used = "roles" /\ Next /\ posted' \subseteq {r1} /\ UNCHANGED collectorVars
       \/ /\ used = "threads"
          /\ Arrive \/ (\E h \in Handlers : Handle(h)) \/ (\E c \in Commands : Proceed(c))
          /\ posted' = posted /\ contended' = {}
          /\ UNCHANGED collectorVars
       \/ used = "collectors" /\ CollectorNext /\ UNCHANGED vars
    /\ UNCHANGED used

(* What is not used is never enabled.                                      *)
FairWatchers ==
    WatchersInit /\ [][WatchersNext]_watchersVars /\ Fairness /\ CollectorFairness
=============================================================================
