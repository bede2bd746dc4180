------------------------------ MODULE SlabPool ------------------------------
(***************************************************************************)
(* What the slab allocator promises its callers: a pool of elements.  Each *)
(* call takes effect at one instant between its invocation and its return. *)
(* slab_alloc gives some element that is not allocated, whichever it likes,*)
(* or NULL; slab_free gives one back; slab_reset gives all of them back.   *)
(* No page, list or lock is visible.                                       *)
(***************************************************************************)
CONSTANTS Elements, Threads, None

VARIABLES created, live, held, pc, arg, ret

vars == <<created, live, held, pc, arg, ret>>

Init ==
  /\ created = FALSE
  /\ live = {} /\ held = {}
  /\ pc = [t \in Threads |-> "idle"]
  /\ arg = [t \in Threads |-> None]
  /\ ret = [t \in Threads |-> None]

Idle(P) == \A t \in P : pc[t] = "idle"

Create ==
  /\ ~created /\ created' = TRUE
  /\ UNCHANGED <<live, held, pc, arg, ret>>

Destroy ==
  /\ created /\ Idle(Threads)
  /\ created' = FALSE
  /\ live' = {} /\ held' = {}
  /\ UNCHANGED <<pc, arg, ret>>

Invoke(t, op) ==
  /\ created /\ pc[t] = "idle"
  /\ pc' = [pc EXCEPT ![t] = op]

InvokeAlloc(t) == Invoke(t, "alloc") /\ UNCHANGED <<created, live, held, arg, ret>>

InvokeFree(t, e) ==
  /\ Invoke(t, "free")
  /\ e \in held
  /\ held' = held \ {e}
  /\ arg' = [arg EXCEPT ![t] = e]
  /\ UNCHANGED <<created, live, ret>>

InvokeReset(t) ==
  /\ Idle(Threads)
  /\ Invoke(t, "reset")
  /\ UNCHANGED <<created, live, held, arg, ret>>

TakeEffect(t, op) == pc[t] = op /\ pc' = [pc EXCEPT ![t] = "return"]

Alloc(t, e) ==
  /\ TakeEffect(t, "alloc")
  /\ e \notin live
  /\ live' = live \cup {e}
  /\ ret' = [ret EXCEPT ![t] = e]
  /\ UNCHANGED <<created, held, arg>>

Fail(t) == TakeEffect(t, "alloc") /\ UNCHANGED <<created, live, held, arg, ret>>

Free(t) ==
  /\ TakeEffect(t, "free")
  /\ arg[t] \in live
  /\ live' = live \ {arg[t]}
  /\ arg' = [arg EXCEPT ![t] = None]
  /\ UNCHANGED <<created, held, ret>>

Reset(t) ==
  /\ TakeEffect(t, "reset")
  /\ live' = {} /\ held' = {}
  /\ UNCHANGED <<created, arg, ret>>

Return(t) ==
  /\ pc[t] = "return"
  /\ pc' = [pc EXCEPT ![t] = "idle"]
  /\ held' = IF ret[t] = None THEN held ELSE held \cup {ret[t]}
  /\ ret' = [ret EXCEPT ![t] = None]
  /\ UNCHANGED <<created, live, arg>>

Next ==
  \/ Create
  \/ Destroy
  \/ \E t \in Threads :
       \/ InvokeAlloc(t) \/ InvokeReset(t)
       \/ \E e \in Elements : InvokeFree(t, e) \/ Alloc(t, e)
       \/ Fail(t) \/ Free(t) \/ Reset(t) \/ Return(t)

Spec == Init /\ [][Next]_vars
=============================================================================
