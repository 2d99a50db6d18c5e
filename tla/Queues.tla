------------------------------- MODULE Queues -------------------------------
(***************************************************************************)
(* What the three worker threads of wctl share: the two file-scope         *)
(* std::queue objects of threads.cpp and the process they live in.         *)
(*                                                                         *)
(* Neither queue is protected by a lock.  Each has one producer (the       *)
(* NRFListenThread) and one consumer, so the only unsynchronised accesses  *)
(* that meet are push() against empty()/front()/pop().  libstdc++'s deque  *)
(* push() stores the element and then advances the finish iterator; with   *)
(* no barrier between them another core may see the second store first.    *)
(* An entry therefore carries a flag: visible |-> FALSE means that the     *)
(* consumer can already count the entry but not yet read its bytes.        *)
(***************************************************************************)
EXTENDS Integers, Sequences

CONSTANTS
  Faults,   \* which parts of the environment may misbehave
  Torn      \* what a copy yields of an entry whose bytes have not arrived

FaultKinds == {"race", "thread", "radio", "connect", "execute", "handle", "curl", "kill"}

ASSUME FaultsAssumption == Faults \subseteq FaultKinds
ASSUME TornAssumption == Torn \notin Int

VARIABLES
  alive,         \* FALSE once the process has been terminated
  dbq,           \* static queue<weather_transform_t> dbq
  webPostQueue   \* static queue<weather_transform_t> webPostQueue

(***************************************************************************)
(* A reading stands for a weather_transform_t: the ordinal of the weather  *)
(* packet it was computed from, over all runs of the process.  0 stands    *)
(* for a transform that is not a weather packet's.                         *)
(***************************************************************************)
Ordinal == Nat \ {0}
Reading == Ordinal \cup {Torn}
QueueEntry == [val : Ordinal, visible : BOOLEAN]

-----------------------------------------------------------------------------

(* The orders in which the two stores of a push can become visible. *)
Visibilities == IF "race" \in Faults THEN BOOLEAN ELSE {TRUE}

(* queue::push: q2 is q with a copy of r at its back. *)
Push(q, r, q2) == \E v \in Visibilities : q2 = Append(q, [val |-> r, visible |-> v])

(* queue::front followed by the copy into the thread's local tr. *)
FrontValue(q) == IF Head(q).visible THEN Head(q).val ELSE Torn

(* The delayed store of an entry reaches the consumer's core. *)
Arrive(q, q2) == \E i \in DOMAIN q : ~q[i].visible /\ q2 = [q EXCEPT ![i].visible = TRUE]

(***************************************************************************)
(* A pop() that overlaps a push() may also follow a node pointer of the    *)
(* deque that is not there yet: the process dies with SIGSEGV.             *)
(***************************************************************************)
PopMayCrash(q) == q # <<>> /\ \E i \in DOMAIN q : ~q[i].visible
=============================================================================
