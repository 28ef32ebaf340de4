----------------------------- MODULE MCLogicWork -----------------------------
(***************************************************************************)
(* The two halves of logic_work, the battle and the grid, share nothing:   *)
(* they are explored side by side and not multiplied.  A grid is made and  *)
(* made again, and the battle is fought where no grid was made.            *)
(***************************************************************************)
EXTENDS Combat, NineMap

MCInit ==
    /\ Init
    /\ MapInit

\* One of the battles that wait to begin.
Waiting ==
    /\ step = "init"
    /\ camp = [f \in Fighters |-> IF f = 1 THEN 1 ELSE 2]
    /\ \A f, g \in Fighters : attr[f] = attr[g]
    /\ attr[1] = [hp |-> 2, atk |-> 0, def |-> 1, speed |-> 0]
    /\ \A c \in Camps : type[c] = "robot"

MCNext ==
    \/ inits = 0 /\ Next /\ UNCHANGED mapVars
    \/ Waiting /\ MapNext /\ UNCHANGED vars

MCSpec ==
    /\ MCInit /\ [][MCNext]_<<vars, mapVars>>
    /\ WF_vars(inits = 0 /\ InitCombat /\ UNCHANGED mapVars)
    /\ WF_vars(inits = 0 /\ Run /\ UNCHANGED mapVars)

=============================================================================
