------------------------------ MODULE MCLinks ------------------------------
(***************************************************************************)
(* The parts around the main loop that run in goroutines of their own or   *)
(* before it, and share no state with each other, in one model: the AP     *)
(* server, the MW client, and the set-up of a game.  A behaviour is a fair *)
(* behaviour of one of them, chosen initially.                             *)
(***************************************************************************)
EXTENDS APServer, MWClient, Setup

VARIABLE link

linksVars == <<serverVars, vars, setupVars, link>>

LinksInit ==
    /\ link \in {"ap", "mw", "setup"}
    /\ ServerInit /\ Init /\ SetupInit

APStep == link = "ap" /\ ServerNext /\ UNCHANGED <<vars, setupVars, link>>
ClientEndStep == link = "mw" /\ Next /\ UNCHANGED <<serverVars, setupVars, link>>
SetupStep == link = "setup" /\ SetupNext /\ UNCHANGED <<serverVars, vars, link>>

(* The fairness of ServerFairSpec, FairSpec and SetupFairSpec, each for the
   behaviours of its part. *)
LinksFairness ==
    /\ \A c \in Conn :
         /\ WF_serverVars(link = "ap" /\ HandlerStep(c))
         /\ WF_serverVars(link = "ap" /\ WriterStep(c))
    /\ WF_serverVars(link = "ap" /\ MainStep)
    /\ WF_vars(link = "mw" /\ RecvStep)
    /\ WF_vars(link = "mw" /\ PingStep)
    /\ WF_vars(link = "mw" /\ SendStep)
    /\ WF_vars(link = "mw" /\ UserStep)
    /\ SF_vars(link = "mw" /\ (Tick \/ GiveUp))
    /\ WF_setupVars(link = "setup" /\ Run)
    /\ WF_setupVars(link = "setup" /\ ProcessStep)
    /\ WF_setupVars(link = "setup" /\ RoomStep)

LinksSpec ==
    /\ LinksInit /\ [][APStep \/ ClientEndStep \/ SetupStep]_linksVars
    /\ LinksFairness
=============================================================================
