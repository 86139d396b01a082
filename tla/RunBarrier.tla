----------------------------- MODULE RunBarrier -----------------------------
(***************************************************************************)
(* What an Agent promises the Controller about the Peers of a run: a Peer  *)
(* is admitted only into a generation that was not closed, a generation is *)
(* closed only when none of its Peers is left, and it stays closed for as  *)
(* long as the Agent process lives.  A restart forgets which Peers belong  *)
(* to which run; those orphans can then only disappear.                    *)
(***************************************************************************)
EXTENDS Naturals

CONSTANTS Nodes, Runs, MaxGeneration

VARIABLES
  live,    \* live[n]: Absent, Orphan, or the <<run, generation>> of the Peer
  closed   \* the <<run, generation>> pairs declared closed

Absent == <<>>
Orphan == <<"none", 0>>

barrierVars == <<live, closed>>

(* Peer n is a live member of the pair's run, of its generation or before. *)
Within(n, c) == live[n] # Absent /\ live[n][1] = c[1] /\ live[n][2] <= c[2]

BarrierInit ==
  /\ live = [n \in Nodes |-> Absent]
  /\ closed = {}

Admit(n, r, g) ==
  /\ live[n] = Absent
  /\ ~\E c \in closed : r = c[1] /\ g <= c[2]
  /\ live' = [live EXCEPT ![n] = <<r, g>>]
  /\ UNCHANGED closed

Leave(n) ==
  /\ live[n] # Absent
  /\ live' = [live EXCEPT ![n] = Absent]
  /\ UNCHANGED closed

Close(pairs) ==
  /\ \A c \in pairs : \A n \in Nodes : ~Within(n, c)
  /\ closed' = closed \cup pairs
  /\ UNCHANGED live

(* A Peer that was live is an orphan afterwards, or gone.                  *)
Restart ==
  /\ \E survivors \in SUBSET {n \in Nodes : live[n] # Absent} :
       live' = [n \in Nodes |-> IF n \in survivors THEN Orphan ELSE Absent]
  /\ closed' = {}

BarrierNext ==
  \/ \E n \in Nodes : Leave(n)
  \/ \E n \in Nodes, r \in Runs, g \in 1 .. MaxGeneration : Admit(n, r, g)
  \/ \E pairs \in SUBSET (Runs \X (1 .. MaxGeneration)) : Close(pairs)
  \/ Restart

BarrierSpec == BarrierInit /\ [][BarrierNext]_barrierVars
=============================================================================
