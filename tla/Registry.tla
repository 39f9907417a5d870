------------------------------ MODULE Registry ------------------------------
(***************************************************************************)
(* What a registry of running servers promises that is kept up to date by  *)
(* looking now and then, by several lookers at once, each of which takes a *)
(* while.  What a look finds need not be the state of any one moment; but  *)
(* it misses no server that was up all the while and holds none that was   *)
(* not up at some time while it lasted.                                    *)
(***************************************************************************)
CONSTANTS Servers,  \* everything a registry can hold
          Lookers   \* who looks

VARIABLES up,       \* the servers that are up
          window,   \* of each look: what was up throughout it, and at some time of it
          servers   \* the registry

registryVars == <<up, window, servers>>

\* The window of a looker who is not looking.
Closed == [open |-> FALSE, throughout |-> {}, sometime |-> {}]

Opened(set) == [open |-> TRUE, throughout |-> set, sometime |-> set]

\* What a window becomes when the servers in set are up from now on.
Seen(w, set) ==
  IF w.open
  THEN [w EXCEPT !.throughout = @ \cap set, !.sometime = @ \cup set]
  ELSE w

RegistryInit ==
  /\ up = {}
  /\ window = [l \in Lookers |-> Closed]
  /\ servers = {}

\* A server comes up or goes down.
Change ==
  \E s \in Servers : \E set \in {up \cup {s}, up \ {s}} :
    /\ up' = set
    /\ window' = [l \in Lookers |-> Seen(window[l], set)]
    /\ UNCHANGED servers

Look(l) ==
  /\ ~window[l].open
  /\ window' = [window EXCEPT ![l] = Opened(up)]
  /\ UNCHANGED <<up, servers>>

\* The look comes to nothing.
GiveUp(l) ==
  /\ window[l].open
  /\ window' = [window EXCEPT ![l] = Closed]
  /\ UNCHANGED <<up, servers>>

Register(l) ==
  /\ window[l].open
  /\ servers' \in SUBSET window[l].sometime
  /\ window[l].throughout \subseteq servers'
  /\ window' = [window EXCEPT ![l] = Closed]
  /\ UNCHANGED up

RegistryNext == Change \/ \E l \in Lookers : Look(l) \/ GiveUp(l) \/ Register(l)

RegistrySpec == RegistryInit /\ [][RegistryNext]_registryVars
=============================================================================
