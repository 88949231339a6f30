---------------------------- MODULE SafeReclaim ----------------------------
(***************************************************************************)
(* What the render graph's deferred reclamation promises to its readers,   *)
(* with every mechanism left out: a reader that took a graph keeps a live  *)
(* object until it lets go, and the graph readers can take is always live. *)
(* GraphReclaim is shown to implement this specification.                  *)
(***************************************************************************)

CONSTANTS
  Graphs,    \* identities (addresses) of TrackGraph objects
  Readers,   \* threads that traverse a graph
  None       \* the null pointer, not a graph

VARIABLES
  allocated, \* the graphs that exist
  current,   \* the graph a reader obtains now, or None
  held       \* held[r]: the graph reader r is traversing, or None

vars == <<allocated, current, held>>

Init ==
  /\ allocated = {}
  /\ current = None
  /\ held = [r \in Readers |-> None]

Allocate(new) ==
  /\ new \in SUBSET (Graphs \ allocated)
  /\ allocated' = allocated \cup new
  /\ UNCHANGED <<current, held>>

Publish(g) ==
  /\ g \in allocated \cup {None}
  /\ current' = g
  /\ UNCHANGED <<allocated, held>>

Acquire(r) ==
  /\ held[r] = None
  /\ current # None
  /\ held' = [held EXCEPT ![r] = current]
  /\ UNCHANGED <<allocated, current>>

Release(r) ==
  /\ held[r] # None
  /\ held' = [held EXCEPT ![r] = None]
  /\ UNCHANGED <<allocated, current>>

\* The whole promise: nothing a reader holds or could take is ever deleted.
Free(g) ==
  /\ g \in allocated
  /\ g # current
  /\ \A r \in Readers : held[r] # g
  /\ allocated' = allocated \ {g}
  /\ UNCHANGED <<current, held>>

Next ==
  \/ \E new \in SUBSET Graphs : Allocate(new)
  \/ \E g \in Graphs : Free(g)
  \/ \E g \in Graphs \cup {None} : Publish(g)
  \/ \E r \in Readers : Acquire(r) \/ Release(r)

Spec == Init /\ [][Next]_vars
=============================================================================
