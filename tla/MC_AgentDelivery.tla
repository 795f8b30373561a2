-------------------------- MODULE MC_AgentDelivery -------------------------
(* A model-checking instance of AgentDelivery.  Configurations and commands *)
(* are decided about one by one, so a behaviour needs no more than one kind *)
(* of them; their life takes more writes than an update or a canary does.   *)
EXTENDS AgentDelivery

CONSTANT ConfigWrites   (* bound on the writes when configurations exist   *)

VARIABLE focus          (* the things that exist in a behaviour            *)

InFocus ==
  /\ assigned \subseteq focus /\ covered \subseteq focus
  /\ \A x \in Things \ focus : row[x] = Nothing /\ held[x] = Nothing
  /\ \A c \in Configs \ focus : canary[c] = Nothing
  /\ focus = Configs => writes <= ConfigWrites

InitFocused == Init /\ focus \in {Configs, Commands} /\ InFocus
NextFocused == Next /\ UNCHANGED focus /\ InFocus'

FairSpecFocused == InitFocused /\ [][NextFocused]_<<vars, focus>> /\ Fairness
=============================================================================
