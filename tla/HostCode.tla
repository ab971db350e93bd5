------------------------------ MODULE HostCode ------------------------------
(***************************************************************************)
(* What a self-update promises the host, seen from between two updates:    *)
(* the code it runs from only ever moves forward, in one step, to a commit *)
(* whose checks passed, while no pipeline run is open; and such a step is  *)
(* taken for a commit that validated here, for one an update could not     *)
(* take back, or for one it was left on because git did not answer.        *)
(***************************************************************************)
EXTENDS Naturals

CONSTANT Commits \* of main, numbered from 0, oldest first

VARIABLES
  code,    \* the commit of main the host runs from
  passed,  \* the commits whose checks passed
  sound,   \* the commits that validated on the host
  stuck,   \* the commits an update could not take back
  slipped, \* the commits it was left on without an answer
  busy     \* a pipeline run is open

codeVars == <<code, passed, sound, stuck, slipped, busy>>

CodeInit ==
  /\ code = 0
  /\ passed = {0} /\ sound = {0} /\ stuck = {} /\ slipped = {}
  /\ busy = FALSE

MovesTo(c) ==
  /\ ~busy
  /\ c \in passed /\ code < c
  /\ code' = c
  /\ UNCHANGED <<passed, busy>>

Advances(c) ==
  /\ MovesTo(c)
  /\ sound' = sound \cup {c}
  /\ UNCHANGED <<stuck, slipped>>

SticksTo(c) ==
  /\ MovesTo(c)
  /\ stuck' = stuck \cup {c}
  /\ UNCHANGED <<sound, slipped>>

SlipsTo(c) ==
  /\ MovesTo(c)
  /\ slipped' = slipped \cup {c}
  /\ UNCHANGED <<sound, stuck>>

ChecksPassOn(c) ==
  /\ passed' = passed \cup {c}
  /\ UNCHANGED <<code, sound, stuck, slipped, busy>>

RunOpensOrCloses ==
  /\ busy' = ~busy
  /\ UNCHANGED <<code, passed, sound, stuck, slipped>>

CodeNext ==
  \/ \E c \in Commits : Advances(c) \/ SticksTo(c) \/ SlipsTo(c) \/ ChecksPassOn(c)
  \/ RunOpensOrCloses

CodeSpec == CodeInit /\ [][CodeNext]_codeVars
=============================================================================
